---- MODULE Spec2Model ----
(***************************************************************************)
(* Dispatch and subscription engine of lila-websocket (src/src/main.rs),   *)
(* with the backend line protocol of src/src/ipc.rs and the identifiers of *)
(* src/src/model.rs.                                                       *)
(*                                                                         *)
(* Threads: the websocket event loop (all Socket handlers, one at a time), *)
(* the session lookup worker, the redis source worker, the redis sink      *)
(* worker.  A handler is split at its lock acquisitions, so that the other *)
(* threads interleave exactly where the locks allow it.                    *)
(***************************************************************************)
EXTENDS Integers, Sequences, FiniteSets, TLC

(***************************************************************************)
(* Bounds of the model.                                                    *)
(***************************************************************************)
MaxSockets == 2
MaxFrames == 2
MaxLilaOut == 2
\* --rate-limiter-credits: the frames one address may send per 10 seconds.
Credits == 1

(***************************************************************************)
(* Value domains the inputs are drawn from.                                *)
(***************************************************************************)
Users == {"alice", "bob"}
Games == {"gameAAAA", "gameBBBB"}
Payloads == {"payload1", "payload2"}
Positions == {[fen |-> "fen1", lm |-> "e2e4"], [fen |-> "fen2", lm |-> "e7e5"]}
Latencies == {7}

NoUser == "-"
NoSri == "nosri"
NoFlag == "noflag"
NoEndpoint == "noendpoint"
NoCookie == "nocookie"
\* The addresses the forwarding header of a handshake may give.
Addrs == {"10.0.0.1"}
NoAddr == "noaddr"
NoQuery == "noquery"
Absent == "absent"

(***************************************************************************)
(* model.rs: Flag, Endpoint, Sri.                                          *)
(***************************************************************************)
Flags == {"simul", "tournament"}

\* Flag::from_str / serde rename: the two known flags parse, anything else fails.
Flag_from_str(s) == IF s \in {"tournament", "simul"} THEN s ELSE "err"

\* GameId::new over ArrayString<[u8; 8]>: exactly 8 ASCII alphanumerics.  A raw
\* id is modelled as [len, alnum, text].
GameId_new(raw) == IF raw.alnum /\ raw.len = 8 THEN raw.text ELSE "err"

\* Endpoint::from_str.
Endpoint_from_str(path) ==
    CASE path = "/socket/v4" -> "site"
      [] path = "/lobby/socket/v4" -> "lobby"
      [] OTHER -> "err"

\* Sri::new over ArrayString<[u8; 12]>: at most 12 bytes, no space.  A raw sri
\* is modelled as [len, spaces, text].
Sri_new(raw) == IF raw.len <= 12 /\ ~raw.spaces THEN raw.text ELSE "err"

RawSris ==
    { [len |-> 12, spaces |-> FALSE, text |-> "sriAAAAAAAAA"],
      [len |-> 3, spaces |-> FALSE, text |-> "sri"],
      [len |-> 13, spaces |-> FALSE, text |-> "sriCCCCCCCCCC"] }

Sris == { r.text : r \in { x \in RawSris : Sri_new(x) # "err" } }

AbsentSri == [len |-> 0, spaces |-> FALSE, text |-> Absent]

\* serde_urlencoded::from_str::<QueryString>: sri is required and must be a
\* valid Sri, flag is optional and must be a known flag when present.
\* A query string is modelled as [sri, flag]: sri a raw sri or AbsentSri,
\* flag a string or Absent.
ParseQueryString(q) ==
    IF q.sri = AbsentSri THEN "err"
    ELSE IF Sri_new(q.sri) = "err" THEN "err"
    ELSE IF q.flag # Absent /\ Flag_from_str(q.flag) = "err" THEN "err"
    ELSE "ok"

QuerySri(q) == Sri_new(q.sri)
QueryFlag(q) == IF q.flag = Absent THEN NoFlag ELSE Flag_from_str(q.flag)

\* The handshakes the model draws from: the path and the optional query
\* string of the resource, and the session id of a decodable lila2 cookie.
NoQueryString == [sri |-> AbsentSri, flag |-> NoQuery]
SriA == CHOOSE r \in RawSris : r.len = 12
SriB == CHOOSE r \in RawSris : r.len = 3
SriTooLong == CHOOSE r \in RawSris : r.len = 13
Handshake(path, sri, flag, cookie) ==
    [path |-> path, query |-> [sri |-> sri, flag |-> flag], cookie |-> cookie]
Handshakes ==
    { Handshake("/socket/v4", SriA, Absent, "sid"),
      Handshake("/socket/v4", SriA, Absent, NoCookie),
      Handshake("/lobby/socket/v4", SriB, "simul", "sid"),
      [path |-> "/socket/v4", query |-> NoQueryString, cookie |-> "sid"],
      Handshake("/other", SriA, Absent, NoCookie),
      Handshake("/socket/v4", SriTooLong, Absent, NoCookie),
      Handshake("/socket/v4", AbsentSri, "simul", NoCookie),
      Handshake("/socket/v4", SriA, "bogus", NoCookie) }

\* The handshakes of the ping specification: both endpoints, and a socket
\* that on_open leaves without a by_id entry.
HandshakesPing ==
    { Handshake("/socket/v4", SriA, Absent, "sid"),
      Handshake("/lobby/socket/v4", SriB, Absent, NoCookie),
      [path |-> "/socket/v4", query |-> NoQueryString, cookie |-> NoCookie] }

\* The handshakes that decide what the game and up-channel specifications are
\* about: one that completes and one that has no query string.
HandshakesShort ==
    { Handshake("/socket/v4", SriA, Absent, "sid"),
      [path |-> "/socket/v4", query |-> NoQueryString, cookie |-> NoCookie] }

(***************************************************************************)
(* HashMap and Vec helpers.                                                *)
(***************************************************************************)
EmptyMap == [k \in {} |-> <<>>]
MapInsert(m, k, v) == [x \in DOMAIN m \cup {k} |-> IF x = k THEN v ELSE m[x]]
MapRemove(m, k) == [x \in DOMAIN m \ {k} |-> m[x]]

\* Vec::iter().position(|s| s.token() == token): 0 when not found.
Position(v, token) ==
    IF \E i \in 1..Len(v) : v[i] = token
    THEN CHOOSE i \in 1..Len(v) : v[i] = token /\ \A j \in 1..(i - 1) : v[j] # token
    ELSE 0

\* Vec::swap_remove(idx): the last element takes the place of the removed one.
swap_remove(v, idx) ==
    IF idx = Len(v) THEN SubSeq(v, 1, Len(v) - 1)
    ELSE SubSeq(v, 1, idx - 1) \o <<v[Len(v)]>> \o SubSeq(v, idx + 1, Len(v) - 1)

Range(v) == { v[i] : i \in 1..Len(v) }
Count(v, x) == Cardinality({ i \in 1..Len(v) : v[i] = x })

\* The orders in which a HashSet may be iterated.
RECURSIVE Orders(_)
Orders(S) ==
    IF S = {} THEN {<<>>}
    ELSE UNION { { <<x>> \o o : o \in Orders(S \ {x}) } : x \in S }

(***************************************************************************)
(* ipc.rs: LilaIn and its Display.  A line is the tuple of its             *)
(* space-separated fields.                                                 *)
(***************************************************************************)
LilaIn_Connect(uid) == <<"Connect", uid>>
LilaIn_Disconnect(uid) == <<"Disconnect", uid>>
LilaIn_DisconnectAll == <<"DisconnectAll">>
LilaIn_Notified(uid) == <<"Notified", uid>>
LilaIn_Watch(game) == <<"Watch", game>>
LilaIn_Unwatch(game) == <<"Unwatch", game>>
LilaIn_Connections(n) == <<"Connections", n>>
LilaIn_Friends(uid) == <<"Friends", uid>>

\* LilaIn::Lag is what UserSocket::on_ping publishes; the enum of ipc.rs has no
\* such variant, so its line is the one the backend protocol gives: lag <uid> <n>.
LilaIn_Lag(uid, lag) == <<"Lag", uid, lag>>
LilaIn_Lag_fmt(msg) == <<"lag", msg[2], msg[3]>>

\* Option<&UserId> is the empty sequence or the sequence of the one id.
LilaIn_TellSri(sri, uid, payload) == <<"TellSri", sri, uid, payload>>

LilaIn_fmt(msg) ==
    CASE msg[1] = "Connect" -> <<"connect", msg[2]>>
      [] msg[1] = "TellSri" -> <<"tell/sri", msg[2], IF msg[3] = <<>> THEN "-" ELSE msg[3][1], msg[4]>>
      [] msg[1] = "Lag" -> LilaIn_Lag_fmt(msg)
      [] msg[1] = "Disconnect" -> <<"disconnect", msg[2]>>
      [] msg[1] = "DisconnectAll" -> <<"disconnect/all">>
      [] msg[1] = "Notified" -> <<"notified", msg[2]>>
      [] msg[1] = "Watch" -> <<"watch", msg[2]>>
      [] msg[1] = "Unwatch" -> <<"unwatch", msg[2]>>
      [] msg[1] = "Connections" -> <<"connections", msg[2]>>
      [] msg[1] = "Friends" -> <<"friends", msg[2]>>

\* App::publish: the formatted line goes to the tail of the redis_sink channel.
publish(sink, msg) == Append(sink, LilaIn_fmt(msg))

(***************************************************************************)
(* main.rs: SocketIn and its JSON form {t, d}.                             *)
(***************************************************************************)
SocketIn_Fen(id, fen, lm) == <<"fen", id, fen, lm>>
SocketIn_MoveLatency(n) == <<"mlat", n>>
RawText(payload) == <<"text", payload>>
\* Lines 561-564: the lobby pong {"t":"n","r":round_count,"d":member_count}.
LobbyPong(r, d) == <<"n", r, d>>
CloseFrame(code) == <<"close", code>>

\* One call of Sender::send or Sender::close and whether it returned Ok.
Sent(to, frame, ok) == [to |-> to, frame |-> frame, ok |-> ok]

\* The calls a loop over `senders` makes, in order; the sends to `failing` fail.
FanOut_stop_at_failure(senders, frame, failing) ==
    LET bad == { i \in 1..Len(senders) : senders[i] \in failing }
        last == IF bad = {} THEN Len(senders) ELSE CHOOSE i \in bad : \A j \in bad : i <= j
    IN  [i \in 1..last |-> Sent(senders[i], frame, senders[i] \notin failing)]

\* A loop over senders that logs an Err and goes on: one call per sender, in
\* order, whatever the earlier calls returned.
FanOut(senders, frame, failing) ==
    [i \in 1..Len(senders) |-> Sent(senders[i], frame, senders[i] \notin failing)]

\* What the last step did to the senders: the calls it made, in order, and the
\* lila message (if any) whose handling made them.
NoLag == [some |-> FALSE, v |-> 0]
\* A text frame of a client: what it holds and its length in bytes.
NoFrame == [kind |-> "none", len |-> 0, d |-> <<>>]
NoMsg == [tag |-> "none", game |-> "", fen |-> "", lm |-> "", n |-> 0, sri |-> NoSri, payload |-> "",
          uid |-> NoUser, flag |-> NoFlag, d |-> FALSE, l |-> NoLag, users |-> <<>>,
          frame |-> NoFrame]
NoSent == [cause |-> NoMsg, calls |-> <<>>]
Calls(cause, calls) == [cause |-> cause, calls |-> calls]

(***************************************************************************)
(* State.                                                                  *)
(***************************************************************************)
VARIABLES
    mainpc,           \* main(): index of the next statement of MainSteps
    socket_id,        \* main(): the factory's counter of created sockets
    sock,             \* the Socket structs, by socket id
    by_user,          \* App.by_user: UserId -> Vec<Sender>
    by_game,          \* App.by_game: GameId -> Vec<Sender>
    by_sri,           \* App.by_sri: Sri -> Vec<Sender>
    by_id,            \* App.by_id: SocketId -> UserSocket
    watched_games,    \* App.watched_games: LRU, most recently used first
    flags,            \* App.flags: Flag -> HashSet<Sender>
    watching_mlat,    \* App.watching_mlat: HashSet<Sender>
    mlat,             \* App.mlat
    round_count,      \* App.round_count
    member_count,     \* App.member_count
    connection_count, \* App.connection_count
    redis_sink,       \* every line sent into the redis_sink channel, in order
    published,        \* how many of them the redis sink thread has published
    sid_sink,         \* the sid_sink channel: pending (SocketId, cookie) requests
    ws,               \* the websocket event loop: the running handler and its locals
    lk,               \* the session lookup thread
    src,              \* the redis source thread
    sent,             \* the Sender::send / close calls of the last step
    panicked,         \* the event loop thread has panicked on an expect()
    nframes,          \* frames received from clients so far
    nlilaout,         \* lines received from lila so far
    client_addr,      \* Socket.client_addr, by socket id
    rate_limited_once, \* Socket.rate_limited_once, by socket id
    rate_limiter,     \* the KeyedRateLimiter: the credits left to each address
    idle_timeout,     \* Socket.idle_timeout, by socket id (0 is None)
    timer,            \* the event loop's timeouts of each socket: requested, scheduled [id, ms]
    last_moveLat,     \* history: the d of each socket's most recent moveLat frame
    du,               \* history: the last DisconnectUser handled and what it found
    lockpc,           \* the lock protocol: each thread's sequence of lock operations and its position in it
    call,             \* history: the last analysis function applied, its arguments and its result
    burst,            \* history: the frames of each address admitted since its last refill
    cancelled,        \* history: the timeouts of each socket that were cancelled
    size_closed       \* history: the sockets asked to close for an oversize frame

appVars == <<by_user, by_game, by_sri, by_id, watched_games, flags, watching_mlat, mlat, connection_count>>
chanVars == <<redis_sink, published, sid_sink>>
threadVars == <<mainpc, socket_id, ws, lk, src, panicked>>
boundVars == <<nframes, nlilaout>>
statVars == <<round_count, member_count>>
histVars == <<last_moveLat, du, call, lockpc>>
limitVars == <<client_addr, rate_limited_once, rate_limiter, burst>>
timerVars == <<idle_timeout, timer, cancelled>>
guardVars == <<limitVars, timerVars, size_closed>>
vars == <<appVars, statVars, chanVars, threadVars, boundVars, histVars, guardVars, sock, sent>>

SocketIds == 1..MaxSockets

\* A Sender is identified by its token; each socket has its own.
SenderOf(s) == s

\* SocketAuth.
Requested == [tag |-> "Requested", uid |-> NoUser]
Anonymous == [tag |-> "Anonymous", uid |-> NoUser]
Authenticated(uid) == [tag |-> "Authenticated", uid |-> uid]

\* The Socket the factory closure builds (main.rs, ws::Builder::build).
NewSocket ==
    [st |-> "new", endpoint |-> NoEndpoint, sri |-> NoSri, flag |-> NoFlag, watching |-> {}]
NoSocket ==
    [st |-> "none", endpoint |-> NoEndpoint, sri |-> NoSri, flag |-> NoFlag, watching |-> {}]

NoUserSocket ==
    [sender |-> 0, sri |-> NoSri, endpoint |-> NoEndpoint, auth |-> Anonymous,
     pending_notified |-> FALSE, pending_following_onlines |-> FALSE]
NoHandshake == [path |-> "", query |-> NoQueryString, cookie |-> NoCookie]

WsIdle == [pc |-> "idle", s |-> 0, hs |-> NoHandshake, auth |-> Anonymous,
           us |-> NoUserSocket, games |-> <<>>, peeked |-> <<>>]
LkIdle == [pc |-> "recv", socket_id |-> 0]
NoDisconnectUser == [uid |-> "none", targets |-> {}, lines |-> 0, fresh |-> FALSE]
NoCall == [fn |-> "none", arg |-> <<>>, ret |-> <<>>]
\* The threads that take the locks of App: the event loop, the session lookup, the redis source.
Threads == {"ws", "lk", "src"}
NoScript == [script |-> <<>>, pos |-> 1]
SrcIdle == [pc |-> "recv", msg |-> NoMsg]
\* No timeout requested, none scheduled; the first handle to give out is 1.
NoTimer == [req |-> <<>>, sched |-> {}, next |-> 1]

\* App::new and the locals of main().
LruCapacity == 5000
\* u32::max_value() = 2^32 - 1; TLC's integers are 32-bit signed, so the value
\* is written as the signed reading of the same bits.  No arithmetic is done on it.
U32Max == -1

Init ==
    /\ mainpc = 1
    /\ socket_id = 0
    /\ sock = [s \in SocketIds |-> NoSocket]
    /\ by_user = EmptyMap
    /\ by_game = EmptyMap
    /\ by_sri = EmptyMap
    /\ by_id = EmptyMap
    /\ watched_games = <<>>
    /\ flags = [f \in Flags |-> {}]
    /\ watching_mlat = {}
    /\ mlat = U32Max
    /\ round_count = 0
    /\ member_count = 0
    /\ connection_count = 0
    /\ redis_sink = <<>>
    /\ published = 0
    /\ sid_sink = <<>>
    /\ ws = WsIdle
    /\ lk = LkIdle
    /\ src = SrcIdle
    /\ sent = NoSent
    /\ panicked = FALSE
    /\ nframes = 0
    /\ nlilaout = 0
    /\ last_moveLat = [s \in SocketIds |-> FALSE]
    /\ du = NoDisconnectUser
    /\ call = NoCall
    /\ lockpc = [t \in Threads |-> NoScript]
    /\ client_addr = [s \in SocketIds |-> NoAddr]
    /\ rate_limited_once = [s \in SocketIds |-> FALSE]
    /\ rate_limiter = [a \in Addrs |-> Credits]
    /\ idle_timeout = [s \in SocketIds |-> 0]
    /\ timer = [s \in SocketIds |-> NoTimer]
    /\ burst = [a \in Addrs |-> 0]
    /\ cancelled = [s \in SocketIds |-> {}]
    /\ size_closed = [s \in SocketIds |-> FALSE]

(***************************************************************************)
(* UserSocket (main.rs).  The operators return the fields they change.     *)
(***************************************************************************)
\* UserSocket::on_notified.
on_notified(us, sink) ==
    CASE us.auth.tag = "Requested" ->
            [us |-> [us EXCEPT !.pending_notified = TRUE], sink |-> sink]
      [] us.auth.tag = "Authenticated" ->
            [us |-> [us EXCEPT !.pending_notified = FALSE],
             sink |-> publish(sink, LilaIn_Notified(us.auth.uid))]
      [] OTHER ->
            [us |-> [us EXCEPT !.pending_notified = FALSE], sink |-> sink]

\* UserSocket::on_following_onlines.
on_following_onlines(us, sink) ==
    CASE us.auth.tag = "Requested" ->
            [us |-> [us EXCEPT !.pending_following_onlines = TRUE], sink |-> sink]
      [] us.auth.tag = "Authenticated" ->
            [us |-> [us EXCEPT !.pending_following_onlines = FALSE],
             sink |-> publish(sink, LilaIn_Friends(us.auth.uid))]
      [] OTHER ->
            [us |-> [us EXCEPT !.pending_following_onlines = FALSE], sink |-> sink]

\* A set_user that publishes Connect for every socket of the user, not only
\* for the first.
by_user_connect_always_publish(byu, sink, uid, sender) ==
    [by_user |-> MapInsert(byu, uid, IF uid \in DOMAIN byu THEN Append(byu[uid], sender) ELSE <<sender>>),
     sink |-> publish(sink, LilaIn_Connect(uid)), panic |-> FALSE]

\* set_user, "Connected": by_user.entry(uid).and_modify(push).or_insert_with(publish Connect).
by_user_connect(byu, sink, uid, sender) ==
    IF uid \in DOMAIN byu
    THEN [by_user |-> MapInsert(byu, uid, Append(byu[uid], sender)), sink |-> sink, panic |-> FALSE]
    ELSE [by_user |-> MapInsert(byu, uid, <<sender>>),
          sink |-> publish(sink, LilaIn_Connect(uid)), panic |-> FALSE]

\* A set_user that leaves the emptied list in by_user.
by_user_disconnect_keep_empty(byu, sink, uid, sender) ==
    IF uid \notin DOMAIN byu \/ Position(byu[uid], sender) = 0
    THEN [by_user |-> byu, sink |-> sink, panic |-> TRUE]
    ELSE [by_user |-> MapInsert(byu, uid, swap_remove(byu[uid], Position(byu[uid], sender))),
          sink |-> sink, panic |-> FALSE]

\* set_user, "Disconnected": swap_remove the sender; the last one removes the
\* key and publishes Disconnect.  Both expect() calls panic when they fail.
by_user_disconnect(byu, sink, uid, sender) ==
    IF uid \notin DOMAIN byu \/ Position(byu[uid], sender) = 0
    THEN [by_user |-> byu, sink |-> sink, panic |-> TRUE]
    ELSE LET entry == swap_remove(byu[uid], Position(byu[uid], sender)) IN
         IF entry = <<>>
         THEN [by_user |-> MapRemove(byu, uid),
               sink |-> publish(sink, LilaIn_Disconnect(uid)), panic |-> FALSE]
         ELSE [by_user |-> MapInsert(byu, uid, entry), sink |-> sink, panic |-> FALSE]

\* A set_user that forgets the pending following_onlines.
flush_pending_only_notified(us, sink) ==
    IF us.pending_notified THEN on_notified(us, sink) ELSE [us |-> us, sink |-> sink]

\* set_user, "Authentication request finished": flush the pending requests.
flush_pending(us, sink) ==
    LET n == IF us.pending_notified THEN on_notified(us, sink) ELSE [us |-> us, sink |-> sink]
    IN  IF n.us.pending_following_onlines THEN on_following_onlines(n.us, n.sink) ELSE n

\* A set_user that flushes the pending requests before it connects the user.
set_user_flush_first(us, maybe_uid, byu, sink) ==
    LET auth == IF maybe_uid # NoUser THEN Authenticated(maybe_uid) ELSE Anonymous
        old == us.auth
        us1 == [us EXCEPT !.auth = auth]
        f == IF old.tag = "Requested" THEN flush_pending(us1, sink) ELSE [us |-> us1, sink |-> sink]
        c == IF maybe_uid # NoUser
             THEN by_user_connect(byu, f.sink, maybe_uid, us.sender)
             ELSE [by_user |-> byu, sink |-> f.sink, panic |-> FALSE]
    IN  IF old.tag = "Authenticated"
        THEN LET d == by_user_disconnect(c.by_user, c.sink, old.uid, us.sender)
             IN  [us |-> us1, by_user |-> d.by_user, sink |-> d.sink, panic |-> d.panic]
        ELSE [us |-> f.us, by_user |-> c.by_user, sink |-> c.sink, panic |-> FALSE]

\* UserSocket::set_user(maybe_uid), NoUser standing for None.
set_user(us, maybe_uid, byu, sink) ==
    LET c == IF maybe_uid # NoUser
             THEN by_user_connect(byu, sink, maybe_uid, us.sender)
             ELSE [by_user |-> byu, sink |-> sink, panic |-> FALSE]
        auth == IF maybe_uid # NoUser THEN Authenticated(maybe_uid) ELSE Anonymous
        old == us.auth
        us1 == [us EXCEPT !.auth = auth]
    IN  CASE old.tag = "Authenticated" ->
                LET d == by_user_disconnect(c.by_user, c.sink, old.uid, us.sender)
                IN  [us |-> us1, by_user |-> d.by_user, sink |-> d.sink, panic |-> d.panic]
          [] old.tag = "Requested" ->
                LET f == flush_pending(us1, c.sink)
                IN  [us |-> f.us, by_user |-> c.by_user, sink |-> f.sink, panic |-> FALSE]
          [] OTHER ->
                [us |-> us1, by_user |-> c.by_user, sink |-> c.sink, panic |-> FALSE]

(***************************************************************************)
(* main(): the order of its statements.                                    *)
(***************************************************************************)
\* A main that publishes DisconnectAll only after the worker threads are spawned.
MainSteps_publish_late ==
    <<"spawn_redis_sink", "spawn_session_lookup", "spawn_redis_source",
      "publish_disconnect_all", "listen">>

MainSteps ==
    <<"publish_disconnect_all", "spawn_redis_sink", "spawn_session_lookup",
      "spawn_redis_source", "listen">>

Done(step) == \E i \in 1..(mainpc - 1) : MainSteps[i] = step

Main ==
    /\ mainpc <= Len(MainSteps)
    /\ mainpc' = mainpc + 1
    /\ redis_sink' = IF MainSteps[mainpc] = "publish_disconnect_all"
                     THEN publish(redis_sink, LilaIn_DisconnectAll)
                     ELSE redis_sink
    /\ sent' = NoSent
    /\ UNCHANGED <<statVars, guardVars, histVars, appVars, published, sid_sink, socket_id, ws, lk, src, panicked, boundVars, sock>>

\* The "redis sink" thread: recv() one line and publish it to site-in.
RedisSink ==
    /\ Done("spawn_redis_sink")
    /\ published < Len(redis_sink)
    /\ published' = published + 1
    /\ sent' = NoSent
    /\ UNCHANGED <<statVars, guardVars, histVars, appVars, redis_sink, sid_sink, threadVars, boundVars, sock>>

\* The factory closure of ws::Builder::build: a new connection gets the next id.
Accept ==
    /\ Done("listen") /\ ~panicked /\ ws.pc = "idle"
    /\ socket_id < MaxSockets
    /\ socket_id' = socket_id + 1
    /\ sock' = [sock EXCEPT ![socket_id + 1] = NewSocket]
    /\ sent' = NoSent
    /\ UNCHANGED <<statVars, guardVars, histVars, appVars, chanVars, mainpc, ws, lk, src, panicked, boundVars>>

(***************************************************************************)
(* The "session lookup" thread.                                            *)
(***************************************************************************)
LookupRecv ==
    /\ Done("spawn_session_lookup")
    /\ lk.pc = "recv"
    /\ sid_sink # <<>>
    /\ lk' = [pc |-> "deliver", socket_id |-> Head(sid_sink)[1]]
    /\ sid_sink' = Tail(sid_sink)
    /\ sent' = NoSent
    /\ UNCHANGED <<statVars, guardVars, histVars, appVars, redis_sink, published, mainpc, socket_id, ws, src, panicked, boundVars, sock>>

\* The result whose delivery made a step: the lookup of socket s found uid.
LookupResult(s, uid) == [NoMsg EXCEPT !.tag = "lookup", !.n = s, !.uid = uid]

\* A delivery that applies the result to the socket even if by_id has lost it.
lookup_apply_unchecked(byid, sid, maybe_uid, byu, sink) ==
    LET us == IF sid \in DOMAIN byid THEN byid[sid]
              ELSE [NoUserSocket EXCEPT !.sender = SenderOf(sid), !.auth = Requested]
        r == set_user(us, maybe_uid, byu, sink)
    IN  [by_id |-> IF sid \in DOMAIN byid THEN [byid EXCEPT ![sid] = r.us] ELSE byid,
         by_user |-> r.by_user, sink |-> r.sink, panic |-> r.panic]

\* Lines 783-786: under the by_id write lock, set_user on the entry of the
\* socket if by_id still (or already) has one.
lookup_apply(byid, sid, maybe_uid, byu, sink) ==
    IF sid \in DOMAIN byid
    THEN LET r == set_user(byid[sid], maybe_uid, byu, sink) IN
         [by_id |-> [byid EXCEPT ![sid] = r.us],
          by_user |-> r.by_user, sink |-> r.sink, panic |-> r.panic]
    ELSE [by_id |-> byid, by_user |-> byu, sink |-> sink, panic |-> FALSE]

\* find_one's answer is any user or none; the result is applied under the
\* by_id write lock, which the event loop does not hold between its steps.
LookupDeliver ==
    /\ lk.pc = "deliver"
    /\ \E maybe_uid \in Users \cup {NoUser} :
          LET r == lookup_apply(by_id, lk.socket_id, maybe_uid, by_user, redis_sink) IN
          /\ by_id' = r.by_id
          /\ by_user' = r.by_user
          /\ redis_sink' = r.sink
          /\ lk' = IF r.panic THEN [LkIdle EXCEPT !.pc = "panicked"] ELSE LkIdle
          /\ sent' = Calls(LookupResult(lk.socket_id, maybe_uid), <<>>)
    /\ du' = IF \E s \in DOMAIN by_id' : by_id'[s].auth = Authenticated(du.uid) /\ s \notin du.targets
             THEN [du EXCEPT !.fresh = FALSE] ELSE du
    /\ UNCHANGED <<statVars, guardVars, last_moveLat, call, lockpc, by_game, by_sri, watched_games, flags, watching_mlat, mlat, connection_count,
                   published, sid_sink, mainpc, socket_id, ws, src, panicked, boundVars, sock>>

(***************************************************************************)
(* Socket::on_open, split at its lock acquisitions.                        *)
(***************************************************************************)
\* Line 421: the address of the forwarding header, if the handshake has one
\* and it parses as an IP address.
ClientAddr(hs) == IF "addr" \in DOMAIN hs THEN hs.addr ELSE NoAddr

\* Sender::timeout(IDLE_TIMEOUT_MS, IDLE_TIMEOUT_TOKEN): the request is queued
\* to the event loop, which schedules it and calls on_new_timeout.
IDLE_TIMEOUT_MS == 15000
sender_timeout(t, s) == [t EXCEPT ![s].req = Append(@, IDLE_TIMEOUT_MS)]

WsReady == Done("listen") /\ ~panicked /\ ws.pc = "idle"

WsFinish(s, st) ==
    /\ ws' = WsIdle
    /\ sock' = [sock EXCEPT ![s].st = st]

\* A handshake that always starts in Requested.
initial_auth_always_requested(cookie) == Requested

\* Line 443: Requested if the session cookie was decoded, else Anonymous.
initial_auth(cookie) == IF cookie # NoCookie THEN Requested ELSE Anonymous

\* Lines 416-447: count the connection, decode the cookie, request the lookup.
OnOpenStart(handshakes) ==
    /\ WsReady
    /\ \E s \in SocketIds, hs \in handshakes :
          /\ sock[s].st = "new"
          /\ connection_count' = connection_count + 1
          /\ sid_sink' = IF hs.cookie # NoCookie THEN Append(sid_sink, <<s, hs.cookie>>) ELSE sid_sink
          /\ ws' = [WsIdle EXCEPT !.pc = "open_by_id", !.s = s, !.hs = hs,
                                  !.auth = initial_auth(hs.cookie)]
          /\ sock' = [sock EXCEPT ![s].st = "opening"]
          /\ client_addr' = [client_addr EXCEPT ![s] = ClientAddr(hs)]
    /\ sent' = NoSent
    /\ UNCHANGED <<statVars, rate_limited_once, rate_limiter, burst, timerVars, size_closed, histVars, by_user, by_game, by_sri, by_id, watched_games, flags, watching_mlat, mlat,
                   redis_sink, published, mainpc, socket_id, lk, src, panicked, boundVars>>

\* Lines 449-466 and 480-489: the resource is split at '?', the path parsed,
\* the query string parsed; only then is the UserSocket put into by_id.
OnOpenById ==
    /\ ws.pc = "open_by_id"
    /\ LET s == ws.s
           hs == ws.hs
           endpoint == Endpoint_from_str(hs.path)
       IN  IF hs.query = NoQueryString \/ endpoint = "err"
           THEN /\ WsFinish(s, "open")
                /\ timer' = sender_timeout(timer, s)
                /\ UNCHANGED by_id
           ELSE IF ParseQueryString(hs.query) = "err"
           THEN /\ ws' = WsIdle
                /\ sock' = [sock EXCEPT ![s].st = "open", ![s].endpoint = endpoint]
                /\ timer' = sender_timeout(timer, s)
                /\ UNCHANGED by_id
           ELSE /\ by_id' = MapInsert(by_id, s,
                       [sender |-> SenderOf(s), sri |-> QuerySri(hs.query), endpoint |-> endpoint,
                        auth |-> ws.auth, pending_notified |-> FALSE,
                        pending_following_onlines |-> FALSE])
                /\ sock' = [sock EXCEPT ![s].endpoint = endpoint]
                /\ ws' = [ws EXCEPT !.pc = "open_flag"]
                /\ UNCHANGED timer
    /\ sent' = NoSent
    /\ UNCHANGED <<statVars, limitVars, idle_timeout, cancelled, size_closed, histVars, by_user, by_game, by_sri, watched_games, flags, watching_mlat, mlat,
                   connection_count, chanVars, mainpc, socket_id, lk, src, panicked, boundVars>>

\* Lines 467-471: subscribe to the flag.
OnOpenFlag ==
    /\ ws.pc = "open_flag"
    /\ LET flag == QueryFlag(ws.hs.query) IN
       /\ sock' = [sock EXCEPT ![ws.s].flag = flag]
       /\ flags' = IF flag # NoFlag
                   THEN [flags EXCEPT ![flag] = @ \cup {SenderOf(ws.s)}]
                   ELSE flags
    /\ ws' = [ws EXCEPT !.pc = "open_sri"]
    /\ sent' = NoSent
    /\ UNCHANGED <<statVars, guardVars, histVars, by_user, by_game, by_sri, by_id, watched_games, watching_mlat, mlat,
                   connection_count, chanVars, mainpc, socket_id, lk, src, panicked, boundVars>>

\* by_sri.entry(sri).and_modify(push).or_insert_with(vec![sender]).
by_sri_insert(bys, sri, sender) ==
    IF sri \in DOMAIN bys
    THEN MapInsert(bys, sri, Append(bys[sri], sender))
    ELSE MapInsert(bys, sri, <<sender>>)

\* Lines 473-478 and 492: add the sri, start the idle timeout; the handler returns.
OnOpenSri ==
    /\ ws.pc = "open_sri"
    /\ LET sri == QuerySri(ws.hs.query) IN
       /\ by_sri' = by_sri_insert(by_sri, sri, SenderOf(ws.s))
       /\ sock' = [sock EXCEPT ![ws.s].sri = sri, ![ws.s].st = "open"]
    /\ timer' = sender_timeout(timer, ws.s)
    /\ ws' = WsIdle
    /\ sent' = NoSent
    /\ UNCHANGED <<statVars, limitVars, idle_timeout, cancelled, size_closed, histVars, by_user, by_game, by_id, watched_games, flags, watching_mlat, mlat,
                   connection_count, chanVars, mainpc, socket_id, lk, src, panicked, boundVars>>

(***************************************************************************)
(* Socket::on_close, split at its lock acquisitions.                       *)
(***************************************************************************)
\* Lines 508-517: swap_remove the sender from by_sri; drop the emptied key.
by_sri_remove(bys, sri, sender) ==
    IF sri \notin DOMAIN bys \/ Position(bys[sri], sender) = 0
    THEN [by_sri |-> bys, panic |-> TRUE]
    ELSE LET senders == swap_remove(bys[sri], Position(bys[sri], sender)) IN
         [by_sri |-> IF senders = <<>> THEN MapRemove(bys, sri) ELSE MapInsert(bys, sri, senders),
          panic |-> FALSE]

\* Lines 527-534: one iteration of the loop over watching.drain().
by_game_unwatch(byg, sink, game, sender) ==
    IF game \notin DOMAIN byg \/ Position(byg[game], sender) = 0
    THEN [by_game |-> byg, sink |-> sink, panic |-> TRUE]
    ELSE LET watchers == swap_remove(byg[game], Position(byg[game], sender)) IN
         IF watchers = <<>>
         THEN [by_game |-> MapRemove(byg, game),
               sink |-> publish(sink, LilaIn_Unwatch(game)), panic |-> FALSE]
         ELSE [by_game |-> MapInsert(byg, game, watchers), sink |-> sink, panic |-> FALSE]

\* Lines 526-535: the loop, over the games in the order the drain yields them;
\* a failed expect() ends it.
RECURSIVE drain_watching(_, _, _, _)
drain_watching(order, byg, sink, sender) ==
    IF order = <<>> THEN [by_game |-> byg, sink |-> sink, panic |-> FALSE]
    ELSE LET r == by_game_unwatch(byg, sink, Head(order), sender) IN
         IF r.panic THEN r ELSE drain_watching(Tail(order), r.by_game, r.sink, sender)

WsPanic ==
    /\ panicked' = TRUE
    /\ ws' = [ws EXCEPT !.pc = "panicked"]

\* Sender::cancel(timeout): the timeout leaves the event loop's timer.
sender_cancel(t, s, timeout) == [t EXCEPT ![s].sched = { x \in @ : x.id # timeout }]

\* Lines 495-517: the connection count, the idle timeout and by_sri.  (The close may come from
\* the client, the idle timeout or a Sender::close; any open socket may close.)
OnCloseStart ==
    /\ WsReady
    /\ \E s \in SocketIds :
          /\ sock[s].st = "open"
          /\ connection_count' = connection_count - 1
          /\ idle_timeout' = [idle_timeout EXCEPT ![s] = 0]
          /\ timer' = sender_cancel(timer, s, idle_timeout[s])
          /\ cancelled' = [cancelled EXCEPT ![s] = @ \cup ({idle_timeout[s]} \ {0})]
          /\ IF sock[s].sri # NoSri
             THEN LET r == by_sri_remove(by_sri, sock[s].sri, SenderOf(s)) IN
                  /\ by_sri' = r.by_sri
                  /\ sock' = [sock EXCEPT ![s].st = "closing", ![s].sri = NoSri]
                  /\ panicked' = r.panic
                  /\ ws' = [WsIdle EXCEPT !.pc = IF r.panic THEN "panicked" ELSE "close_by_id", !.s = s]
             ELSE /\ UNCHANGED <<by_sri, panicked>>
                  /\ sock' = [sock EXCEPT ![s].st = "closing"]
                  /\ ws' = [WsIdle EXCEPT !.pc = "close_by_id", !.s = s]
    /\ sent' = NoSent
    /\ UNCHANGED <<statVars, limitVars, size_closed, histVars, by_user, by_game, by_id, watched_games, flags, watching_mlat, mlat,
                   chanVars, mainpc, socket_id, lk, src, boundVars>>

\* Lines 519-520: by_id.write().remove(&socket_id).expect("user socket").
OnCloseById ==
    /\ ws.pc = "close_by_id"
    /\ IF ws.s \in DOMAIN by_id
       THEN /\ by_id' = MapRemove(by_id, ws.s)
            /\ ws' = [ws EXCEPT !.pc = "close_set_user", !.us = by_id[ws.s]]
            /\ UNCHANGED panicked
       ELSE /\ WsPanic
            /\ UNCHANGED by_id
    /\ sent' = NoSent
    /\ UNCHANGED <<statVars, guardVars, histVars, by_user, by_game, by_sri, watched_games, flags, watching_mlat, mlat,
                   connection_count, chanVars, mainpc, socket_id, lk, src, boundVars, sock>>

\* Line 521: user_socket.set_user(None) on the removed UserSocket.
OnCloseSetUser ==
    /\ ws.pc = "close_set_user"
    /\ LET r == set_user(ws.us, NoUser, by_user, redis_sink) IN
       /\ by_user' = r.by_user
       /\ redis_sink' = r.sink
       /\ panicked' = r.panic
       /\ ws' = [ws EXCEPT !.pc = IF r.panic THEN "panicked" ELSE "close_by_game", !.us = r.us]
    /\ sent' = NoSent
    /\ UNCHANGED <<statVars, guardVars, histVars, by_game, by_sri, by_id, watched_games, flags, watching_mlat, mlat,
                   connection_count, published, sid_sink, mainpc, socket_id, lk, src, boundVars, sock>>

\* Lines 523-535: under the by_game write lock, which is held to the end of
\* the handler.  The drain empties the watching set, also when it is dropped
\* by a panic.
OnCloseByGame ==
    /\ ws.pc = "close_by_game"
    /\ \E order \in Orders(sock[ws.s].watching) :
          LET r == drain_watching(order, by_game, redis_sink, SenderOf(ws.s)) IN
          /\ by_game' = r.by_game
          /\ redis_sink' = r.sink
          /\ panicked' = r.panic
          /\ ws' = [ws EXCEPT !.pc = IF r.panic THEN "panicked" ELSE "close_flag", !.us = NoUserSocket]
    /\ sock' = [sock EXCEPT ![ws.s].watching = {}]
    /\ sent' = NoSent
    /\ UNCHANGED <<statVars, guardVars, histVars, by_user, by_sri, by_id, watched_games, flags, watching_mlat, mlat,
                   connection_count, published, sid_sink, mainpc, socket_id, lk, src, boundVars>>

\* Lines 537-541: unsubscribe from the flag; the handler returns.
OnCloseFlag ==
    /\ ws.pc = "close_flag"
    /\ flags' = IF sock[ws.s].flag # NoFlag
                THEN [flags EXCEPT ![sock[ws.s].flag] = @ \ {SenderOf(ws.s)}]
                ELSE flags
    /\ sock' = [sock EXCEPT ![ws.s].flag = NoFlag, ![ws.s].st = "closed"]
    /\ ws' = WsIdle
    /\ sent' = NoSent
    /\ UNCHANGED <<statVars, guardVars, histVars, by_user, by_game, by_sri, by_id, watched_games, watching_mlat, mlat,
                   connection_count, chanVars, mainpc, socket_id, lk, src, panicked, boundVars>>

(***************************************************************************)
(* App.watched_games: LruCache<GameId, WatchedGame>.                       *)
(***************************************************************************)
\* A cache in which the first state written for a game stays.
lru_put_keep_first(cache, game, fen, lm) ==
    IF \E i \in 1..Len(cache) : cache[i].game = game THEN cache
    ELSE <<[game |-> game, fen |-> fen, lm |-> lm]>> \o cache

\* LruCache::put: the entry becomes the most recently used; over capacity the
\* least recently used one is evicted.
lru_put(cache, game, fen, lm) ==
    LET rest == SelectSeq(cache, LAMBDA e : e.game # game)
        full == <<[game |-> game, fen |-> fen, lm |-> lm]>> \o rest
    IN  IF Len(full) > LruCapacity THEN SubSeq(full, 1, LruCapacity) ELSE full

\* LruCache::peek: the entry, without touching the order.
lru_contains(cache, game) == \E i \in 1..Len(cache) : cache[i].game = game
lru_peek(cache, game) == cache[CHOOSE i \in 1..Len(cache) : cache[i].game = game]

(***************************************************************************)
(* Socket::on_message, one action per browser message.                     *)
(***************************************************************************)
(***************************************************************************)
(* analysis.rs: anaDests, anaMove, anaDrop.  What shakmaty finds in a FEN  *)
(* and in a move is part of the request: fen is "ok", "unparseable" (no    *)
(* FEN) or "impossible" (a FEN, but no legal position of the variant);     *)
(* legal says whether the move or drop is legal in that position.          *)
(***************************************************************************)
VariantKeys ==
    { "standard", "fromPosition", "chess960", "antichess", "kingOfTheHill", "threeCheck",
      "atomic", "horde", "racingKings", "crazyhouse" }

\* A text frame: its t, its length in bytes and its d.
Frame(kind, len, d) == [kind |-> kind, len |-> len, d |-> d]

AnalysisRequest(variant, fen, legal) == [variant |-> variant, fen |-> fen, legal |-> legal]
AnalysisFrames ==
    { Frame(t, 100, AnalysisRequest(v, fen, legal)) :
        t \in {"anaDests", "anaMove", "anaDrop"},
        v \in {Absent, "standard", "crazyhouse", "shogi"},
        fen \in {"ok", "unparseable", "impossible"},
        legal \in BOOLEAN }

\* Lines 186-208: Option<VariantKey> deserializes from an absent field or from
\* one of the ten keys.
VariantKey_deserialize(v) == IF v = Absent \/ v \in VariantKeys THEN "ok" ELSE "err"

\* Line 581 for the three analysis messages: d must deserialize.
AnalysisDecode(frame) == VariantKey_deserialize(frame.d.variant)

\* Lines 381-393: GetDests::respond fails on the FEN or on the position.
GetDests_respond(d) ==
    CASE d.fen = "unparseable" -> "ParseFenError"
      [] d.fen = "impossible" -> "PositionError"
      [] OTHER -> "ok"

\* Lines 471-497: PlayStep::respond fails on the FEN, the position or the move.
PlayStep_respond(d) ==
    CASE d.fen = "unparseable" -> "ParseFenError"
      [] d.fen = "impossible" -> "PositionError"
      [] ~d.legal -> "IllegalMoveError"
      [] OTHER -> "ok"

\* Lines 657-683: the frame an analysis message is answered with.
AnalysisReply(frame) ==
    IF frame.kind = "anaDests"
    THEN (IF GetDests_respond(frame.d) = "ok" THEN <<"dests">> ELSE <<"destsFailure">>)
    ELSE (IF PlayStep_respond(frame.d) = "ok" THEN <<"node">> ELSE <<"stepFailure">>)

SocketOut_Analysis(s, frame) == [NoMsg EXCEPT !.tag = "analysis", !.n = s, !.frame = frame]

\* Lines 581, 657-683 and 698-701: anaDests, anaMove and anaDrop.
OnMessageAnalysis ==
    /\ WsReady /\ nframes < MaxFrames
    /\ \E s \in SocketIds, frame \in AnalysisFrames, ok \in BOOLEAN :
          /\ sock[s].st = "open"
          /\ sent' = Calls(SocketOut_Analysis(s, frame),
                           <<Sent(SenderOf(s),
                                  IF AnalysisDecode(frame) = "err" THEN CloseFrame("Protocol")
                                  ELSE AnalysisReply(frame),
                                  ok)>>)
    /\ nframes' = nframes + 1
    /\ UNCHANGED <<statVars, guardVars, histVars, appVars, chanVars, threadVars, nlilaout, sock>>

\* The evalGet and evalPut frames: the text of the frame is the frame itself.
EvalFrames == { Frame(t, len, <<>>) : t \in {"evalGet", "evalPut"}, len \in {15, 300} }

\* Lines 407-412: UserSocket::user_id.
user_id_none(us) == <<>>
user_id(us) == IF us.auth.tag = "Authenticated" THEN <<us.auth.uid>> ELSE <<>>

SocketOut_Eval(s, frame) == [NoMsg EXCEPT !.tag = "eval", !.n = s, !.frame = frame]

\* Lines 684-693: EvalGet and EvalPut.
OnMessageEval ==
    /\ WsReady /\ nframes < MaxFrames
    /\ \E s \in SocketIds, frame \in EvalFrames :
          /\ sock[s].st = "open"
          /\ IF sock[s].sri # NoSri /\ s \notin DOMAIN by_id
             THEN /\ WsPanic
                  /\ UNCHANGED redis_sink
             ELSE /\ redis_sink' = IF sock[s].sri # NoSri
                                   THEN publish(redis_sink,
                                                LilaIn_TellSri(sock[s].sri, user_id(by_id[s]), frame))
                                   ELSE redis_sink
                  /\ UNCHANGED <<ws, panicked>>
          /\ sent' = Calls(SocketOut_Eval(s, frame), <<>>)
    /\ nframes' = nframes + 1
    /\ UNCHANGED <<statVars, guardVars, histVars, appVars, published, sid_sink, mainpc, socket_id, lk, src, nlilaout, sock>>

\* The frame whose handling made a step: notified or following_onlines of socket s.
SocketOut_Notified(s) == [NoMsg EXCEPT !.tag = "notified", !.n = s]
SocketOut_FollowingOnlines(s) == [NoMsg EXCEPT !.tag = "following_onlines", !.n = s]

\* Lines 592-598: Notified, under the by_id write lock.
OnMessageNotified ==
    /\ WsReady /\ nframes < MaxFrames
    /\ \E s \in SocketIds :
          /\ sock[s].st = "open"
          /\ IF s \in DOMAIN by_id
             THEN LET r == on_notified(by_id[s], redis_sink) IN
                  /\ by_id' = [by_id EXCEPT ![s] = r.us]
                  /\ redis_sink' = r.sink
                  /\ UNCHANGED <<ws, panicked>>
             ELSE /\ WsPanic
                  /\ UNCHANGED <<by_id, redis_sink>>
          /\ sent' = Calls(SocketOut_Notified(s), <<>>)
    /\ nframes' = nframes + 1
    /\ UNCHANGED <<statVars, guardVars, histVars, by_user, by_game, by_sri, watched_games, flags, watching_mlat, mlat,
                   connection_count, published, sid_sink, mainpc, socket_id, lk, src, nlilaout, sock>>

\* Lines 599-605: FollowingOnlines, under the by_id write lock.
OnMessageFollowingOnlines ==
    /\ WsReady /\ nframes < MaxFrames
    /\ \E s \in SocketIds :
          /\ sock[s].st = "open"
          /\ IF s \in DOMAIN by_id
             THEN LET r == on_following_onlines(by_id[s], redis_sink) IN
                  /\ by_id' = [by_id EXCEPT ![s] = r.us]
                  /\ redis_sink' = r.sink
                  /\ UNCHANGED <<ws, panicked>>
             ELSE /\ WsPanic
                  /\ UNCHANGED <<by_id, redis_sink>>
          /\ sent' = Calls(SocketOut_FollowingOnlines(s), <<>>)
    /\ nframes' = nframes + 1
    /\ UNCHANGED <<statVars, guardVars, histVars, by_user, by_game, by_sri, watched_games, flags, watching_mlat, mlat,
                   connection_count, published, sid_sink, mainpc, socket_id, lk, src, nlilaout, sock>>

\* The d of a startWatching frame: one or two game ids, repeats included.
\* The values of l in {"t":"p","l":...}: absent, negative, non-negative.
PingLags == {NoLag, [some |-> TRUE, v |-> -1], [some |-> TRUE, v |-> 37]}

\* The frame whose handling made the calls of a step: a ping of socket s.
SocketOut_Ping(s, l) == [NoMsg EXCEPT !.tag = "p", !.n = s, !.l = l]
SocketOut_Null(s) == [NoMsg EXCEPT !.tag = "null", !.n = s]

\* Lines 383-387: UserSocket::on_ping.
on_ping(us, sink, lag) ==
    IF us.auth.tag = "Authenticated" THEN publish(sink, LilaIn_Lag(us.auth.uid, lag)) ELSE sink

\* Line 584: i32 -> u32 try_into succeeds for the non-negative values.
try_into_u32_ok(lag) == lag >= 0

\* Line 590: the reply to {"t":"p"}.
PingReply(endpoint, r, d) == RawText("0")

\* Lines 582-591: Ping.  The lag goes through the by_id entry of the socket;
\* the reply is the last statement.
OnMessagePing ==
    /\ WsReady /\ nframes < MaxFrames
    /\ \E s \in SocketIds, l \in PingLags, ok \in BOOLEAN :
          /\ sock[s].st = "open"
          /\ IF l.some /\ try_into_u32_ok(l.v) /\ s \notin DOMAIN by_id
             THEN /\ WsPanic
                  /\ sent' = Calls(SocketOut_Ping(s, l), <<>>)
                  /\ UNCHANGED redis_sink
             ELSE /\ redis_sink' = IF l.some /\ try_into_u32_ok(l.v)
                                   THEN on_ping(by_id[s], redis_sink, l.v)
                                   ELSE redis_sink
                  /\ sent' = Calls(SocketOut_Ping(s, l),
                                   <<Sent(SenderOf(s), PingReply(sock[s].endpoint, round_count, member_count), ok)>>)
                  /\ UNCHANGED <<ws, panicked>>
    /\ nframes' = nframes + 1
    /\ UNCHANGED <<statVars, guardVars, histVars, appVars, published, sid_sink, mainpc, socket_id, lk, src, nlilaout, sock>>

\* Lines 558-571: the reply to the text "null".
NullReply(endpoint, r, d) == IF endpoint = "lobby" THEN LobbyPong(r, d) ELSE RawText("0")

\* Lines 556-571: the fast path for the text "null".
OnMessageNull ==
    /\ WsReady /\ nframes < MaxFrames
    /\ \E s \in SocketIds, ok \in BOOLEAN :
          /\ sock[s].st = "open"
          /\ sent' = Calls(SocketOut_Null(s),
                           <<Sent(SenderOf(s), NullReply(sock[s].endpoint, round_count, member_count), ok)>>)
    /\ nframes' = nframes + 1
    /\ UNCHANGED <<statVars, guardVars, histVars, appVars, chanVars, threadVars, nlilaout, sock>>

(***************************************************************************)
(* Socket::on_message up to the dispatch: the rate limiter, the idle       *)
(* timeout, the size limit and the decoding; on_new_timeout, on_timeout.   *)
(***************************************************************************)
\* The handshakes of a proxied client and of one without forwarding header.
HandshakesGuard ==
    { [path |-> "/socket/v4", query |-> [sri |-> SriA, flag |-> Absent], cookie |-> NoCookie,
       addr |-> "10.0.0.1"],
      Handshake("/lobby/socket/v4", SriB, Absent, NoCookie) }

RawGameIds ==
    { [len |-> 8, alnum |-> TRUE, text |-> "gameAAAA"],
      [len |-> 8, alnum |-> FALSE, text |-> "game-AAA"],
      [len |-> 3, alnum |-> TRUE, text |-> "bad"] }

\* The frames of the clients: the text null, pings of several lengths (the
\* longer ones padded with white space), an unknown t, text that is not
\* JSON, and startWatching lists that hold an invalid id.
GuardFrames ==
    { Frame("null", 4, <<>>), Frame("p", 9, <<>>), Frame("p", 1024, <<>>), Frame("p", 1025, <<>>),
      Frame("p", 2000, <<>>), Frame("bogus", 13, <<>>), Frame("malformed", 5, <<>>) }
    \cup { Frame("startWatching", 40, <<g, h>>) :
             g \in { x \in RawGameIds : GameId_new(x) # "err" },
             h \in { x \in RawGameIds : GameId_new(x) = "err" } }

\* The tags of SocketOut (lines 95-131).
SocketOutTags ==
    { "p", "notified", "startWatching", "moveLat", "following_onlines", "opening",
      "anaDests", "anaMove", "anaDrop", "evalGet", "evalPut", "ping" }

\* util::space_separated over GameId: every element must parse.
space_separated(d) == IF \E i \in 1..Len(d) : GameId_new(d[i]) = "err" THEN "err" ELSE "ok"

\* A decoder that skips the elements of a list that do not parse.
SocketOut_from_str_lenient(frame) ==
    IF frame.kind \in SocketOutTags THEN "ok" ELSE "err"

\* Line 581: serde_json::from_str::<SocketOut>.  The text must be JSON, its t
\* one of the tags, and the fields of that variant must deserialize.
SocketOut_from_str(frame) ==
    CASE frame.kind = "malformed" -> "err"
      [] frame.kind \notin SocketOutTags -> "err"
      [] frame.kind = "startWatching" -> space_separated(frame.d)
      [] OTHER -> "ok"

\* A rate limiter that lets every frame in.
rate_limiter_check_always(rl, addr) == TRUE

\* KeyedRateLimiter::check: one credit of the address, if it has one left.
rate_limiter_check(rl, addr) == rl[addr] > 0

\* The frame whose handling made a step, and whether the rate limiter let it in.
SocketFrame(s, frame, admitted) ==
    [NoMsg EXCEPT !.tag = "frame", !.n = s, !.frame = frame, !.d = admitted]

\* Line 574: msg.len() > 1024.
too_long(len) == len > 1024

\* What lines 556-591 and 698-701 send for a frame that was let in: the pong
\* of the text null, the close for a frame that is too long, the reply to a
\* ping without lag, the close for a frame that does not decode.
GuardReply(s, frame) ==
    CASE frame.kind = "null" -> NullReply(sock[s].endpoint, round_count, member_count)
      [] too_long(frame.len) -> CloseFrame("Size")
      [] SocketOut_from_str(frame) = "err" -> CloseFrame("Protocol")
      [] OTHER -> PingReply(sock[s].endpoint, round_count, member_count)

\* Lines 543-591 and 698-701: on_message for the frames of GuardFrames.  A
\* frame of an address without credit is ignored before anything else.
OnMessageGuarded ==
    /\ WsReady /\ nframes < MaxFrames
    /\ \E s \in SocketIds, frame \in GuardFrames, ok \in BOOLEAN :
          /\ sock[s].st = "open"
          /\ IF client_addr[s] # NoAddr /\ ~rate_limiter_check(rate_limiter, client_addr[s])
             THEN /\ rate_limited_once' = [rate_limited_once EXCEPT ![s] = TRUE]
                  /\ sent' = Calls(SocketFrame(s, frame, FALSE), <<>>)
                  /\ UNCHANGED <<rate_limiter, burst, timer, size_closed>>
             ELSE /\ IF client_addr[s] # NoAddr
                     THEN /\ rate_limiter' = [rate_limiter EXCEPT ![client_addr[s]] = @ - 1]
                          /\ burst' = [burst EXCEPT ![client_addr[s]] = @ + 1]
                     ELSE UNCHANGED <<rate_limiter, burst>>
                  /\ timer' = sender_timeout(timer, s)
                  /\ sent' = Calls(SocketFrame(s, frame, TRUE), <<Sent(SenderOf(s), GuardReply(s, frame), ok)>>)
                  /\ size_closed' = [size_closed EXCEPT ![s] = @ \/ (frame.kind # "null" /\ too_long(frame.len))]
                  /\ UNCHANGED rate_limited_once
    /\ nframes' = nframes + 1
    /\ UNCHANGED <<statVars, histVars, appVars, chanVars, threadVars, client_addr, idle_timeout, cancelled, nlilaout, sock>>

\* The token bucket of an address gains a credit as time passes.
Refill ==
    /\ \E a \in Addrs :
          /\ rate_limiter[a] < Credits
          /\ rate_limiter' = [rate_limiter EXCEPT ![a] = @ + 1]
          /\ burst' = [burst EXCEPT ![a] = 0]
    /\ sent' = NoSent
    /\ UNCHANGED <<statVars, histVars, appVars, chanVars, threadVars, boundVars, client_addr, rate_limited_once,
                   timerVars, size_closed, sock>>

\* Lines 705-712: on_new_timeout cancels the old timeout and keeps the new one.
on_new_timeout(s, timeout) ==
    [idle_timeout |-> [idle_timeout EXCEPT ![s] = timeout],
     timer |-> IF idle_timeout[s] # 0 THEN sender_cancel(timer, s, idle_timeout[s]) ELSE timer,
     cancelled |-> [cancelled EXCEPT ![s] = @ \cup ({idle_timeout[s]} \ {0})]]

TimeoutEvent(tag, s, timeout) == [NoMsg EXCEPT !.tag = tag, !.n = s, !.l = [some |-> TRUE, v |-> timeout]]

\* The event loop takes a request of Sender::timeout from its queue, schedules
\* the timeout and hands it to on_new_timeout.
OnNewTimeout ==
    /\ WsReady
    /\ \E s \in SocketIds :
          /\ sock[s].st = "open" /\ timer[s].req # <<>>
          /\ LET timeout == timer[s].next
                 r == on_new_timeout(s, timeout)
             IN  /\ idle_timeout' = r.idle_timeout
                 /\ cancelled' = r.cancelled
                 /\ timer' = [r.timer EXCEPT ![s].req = Tail(@),
                                              ![s].sched = @ \cup {[id |-> timeout, ms |-> Head(timer[s].req)]},
                                              ![s].next = timeout + 1]
                 /\ sent' = Calls(TimeoutEvent("new_timeout", s, timeout), <<>>)
    /\ UNCHANGED <<statVars, histVars, appVars, chanVars, threadVars, boundVars, limitVars, size_closed, sock>>

\* Lines 714-718: a scheduled timeout expires; on_timeout closes with Away.
OnTimeout ==
    /\ WsReady
    /\ \E s \in SocketIds, ok \in BOOLEAN :
          /\ sock[s].st = "open"
          /\ \E x \in timer[s].sched :
                /\ timer' = [timer EXCEPT ![s].sched = @ \ {x}]
                /\ sent' = Calls(TimeoutEvent("timeout", s, x.id), <<Sent(SenderOf(s), CloseFrame("Away"), ok)>>)
    /\ UNCHANGED <<statVars, histVars, appVars, chanVars, threadVars, boundVars, limitVars, idle_timeout, cancelled,
                   size_closed, sock>>

\* The frame whose handling made the calls of a step: moveLat{d} of socket s.
SocketOut_MoveLatency(s, d) == [NoMsg EXCEPT !.tag = "moveLat", !.n = s, !.d = d]

\* A watching_mlat that takes no sender as new.
watching_mlat_insert_never(watching, sender) == FALSE

\* Line 641: HashSet::insert is true when the sender was not in the set.
watching_mlat_insert(watching, sender) == sender \notin watching

\* Lines 638-650: moveLat, under the watching_mlat write lock.  A failed send
\* returns the error after the insert.
OnMessageMoveLatency ==
    /\ WsReady /\ nframes < MaxFrames
    /\ \E s \in SocketIds, d \in BOOLEAN, ok \in BOOLEAN :
          /\ sock[s].st = "open"
          /\ IF d
             THEN /\ watching_mlat' = watching_mlat \cup {SenderOf(s)}
                  /\ sent' = Calls(SocketOut_MoveLatency(s, d),
                                   IF watching_mlat_insert(watching_mlat, SenderOf(s))
                                   THEN <<Sent(SenderOf(s), SocketIn_MoveLatency(mlat), ok)>>
                                   ELSE <<>>)
             ELSE /\ watching_mlat' = watching_mlat \ {SenderOf(s)}
                  /\ sent' = Calls(SocketOut_MoveLatency(s, d), <<>>)
          /\ last_moveLat' = [last_moveLat EXCEPT ![s] = d]
    /\ nframes' = nframes + 1
    /\ UNCHANGED <<statVars, guardVars, du, call, lockpc, by_user, by_game, by_sri, by_id, watched_games, flags, mlat,
                   connection_count, chanVars, threadVars, nlilaout, sock>>

WatchLists == { <<g>> : g \in Games } \cup { <<g, h>> : g \in Games, h \in Games }

\* Line 606: a startWatching frame has been decoded; the loop over d begins.
OnMessageStartWatching ==
    /\ WsReady /\ nframes < MaxFrames
    /\ \E s \in SocketIds, d \in WatchLists :
          /\ sock[s].st = "open"
          /\ ws' = [WsIdle EXCEPT !.pc = "watch_peek", !.s = s, !.games = d]
    /\ nframes' = nframes + 1
    /\ sent' = NoSent
    /\ UNCHANGED <<statVars, guardVars, histVars, appVars, chanVars, mainpc, socket_id, lk, src, panicked, nlilaout, sock>>

\* The frame whose handling made the calls of a step: startWatching of `game`
\* by socket s.
SocketOut_StartWatching(s, game) == [NoMsg EXCEPT !.tag = "startWatching", !.game = game, !.n = s]

\* A watching set that takes every game as new.
watching_insert_always(watching, game) == TRUE

\* Line 608: HashSet::insert is true when the game was not in the set.
watching_insert(watching, game) == game \notin watching

WatchNext == [ws EXCEPT !.pc = IF Len(ws.games) > 1 THEN "watch_peek" ELSE "idle",
                        !.s = IF Len(ws.games) > 1 THEN ws.s ELSE 0,
                        !.games = Tail(ws.games),
                        !.peeked = <<>>]

\* Lines 607-620: the next game of d.  A game already watched is skipped.  A
\* new one is put into self.watching and, if cached, its state is sent under
\* the watched_games read lock; a failed send returns from the handler.
\* ws.peeked is the state that was sent, <<>> if the game was not cached.
StartWatchingPeek ==
    /\ ws.pc = "watch_peek"
    /\ LET s == ws.s
           game == Head(ws.games)
           cause == SocketOut_StartWatching(s, game)
       IN  IF ~watching_insert(sock[s].watching, game)
           THEN /\ ws' = WatchNext
                /\ sent' = Calls(cause, <<>>)
                /\ UNCHANGED sock
           ELSE /\ sock' = [sock EXCEPT ![s].watching = @ \cup {game}]
                /\ IF lru_contains(watched_games, game)
                   THEN \E ok \in BOOLEAN :
                           LET state == lru_peek(watched_games, game) IN
                           /\ sent' = Calls(cause, <<Sent(SenderOf(s), SocketIn_Fen(game, state.fen, state.lm), ok)>>)
                           /\ ws' = IF ok THEN [ws EXCEPT !.pc = "watch_subscribe", !.peeked = <<state.fen, state.lm>>]
                                    ELSE WsIdle
                   ELSE /\ sent' = Calls(cause, <<>>)
                        /\ ws' = [ws EXCEPT !.pc = "watch_subscribe"]
    /\ UNCHANGED <<statVars, guardVars, histVars, appVars, chanVars, mainpc, socket_id, lk, src, panicked, boundVars>>

\* A subscription that publishes Watch for every watcher, not only for the first.
by_game_watch_always_publish(byg, sink, game, sender) ==
    [by_game |-> MapInsert(byg, game, IF game \in DOMAIN byg THEN Append(byg[game], sender) ELSE <<sender>>),
     sink |-> publish(sink, LilaIn_Watch(game))]

\* Lines 623-633: by_game.entry(game).and_modify(push).or_insert_with(publish Watch).
by_game_watch(byg, sink, game, sender) ==
    IF game \in DOMAIN byg
    THEN [by_game |-> MapInsert(byg, game, Append(byg[game], sender)), sink |-> sink]
    ELSE [by_game |-> MapInsert(byg, game, <<sender>>), sink |-> publish(sink, LilaIn_Watch(game))]

\* Lines 622-634: subscribe to updates, under the by_game write lock.
StartWatchingSubscribe ==
    /\ ws.pc = "watch_subscribe"
    /\ LET r == by_game_watch(by_game, redis_sink, Head(ws.games), SenderOf(ws.s)) IN
       /\ by_game' = r.by_game
       /\ redis_sink' = r.sink
    /\ ws' = WatchNext
    /\ sent' = NoSent
    /\ UNCHANGED <<statVars, guardVars, histVars, by_user, by_sri, by_id, watched_games, flags, watching_mlat, mlat,
                   connection_count, published, sid_sink, mainpc, socket_id, lk, src, panicked,
                   boundVars, sock>>

(***************************************************************************)
(* The "redis source" thread: App::received, one parsed LilaOut at a time. *)
(***************************************************************************)
LilaOut_Move(game, fen, last_uci) ==
    [NoMsg EXCEPT !.tag = "Move", !.game = game, !.fen = fen, !.lm = last_uci]
LilaOut_TellSri(sri, payload) ==
    [NoMsg EXCEPT !.tag = "TellSri", !.sri = sri, !.payload = payload]
LilaOut_MoveLatency(n) == [NoMsg EXCEPT !.tag = "MoveLatency", !.n = n]

SrcReady == Done("spawn_redis_source") /\ src.pc = "recv" /\ nlilaout < MaxLilaOut

\* A tell/sri that goes to the sockets of every sri.
RECURSIVE Concat(_, _)
Concat(m, keys) ==
    IF keys = {} THEN <<>>
    ELSE LET k == CHOOSE x \in keys : TRUE IN m[k] \o Concat(m, keys \ {k})
TellSriTargets_every_sri(bys, sri) == Concat(bys, DOMAIN bys)

\* The senders a TellSri is sent to: the by_sri entry, if any (line 266).
TellSriTargets(bys, sri) == IF sri \in DOMAIN bys THEN bys[sri] ELSE <<>>

\* Lines 265-273: TellSri, under the by_sri read lock.
received_TellSri(sri, payload) ==
    /\ SrcReady
    /\ LET targets == TellSriTargets(by_sri, sri) IN
       /\ src' = SrcIdle
       /\ \E failing \in SUBSET Range(targets) :
             sent' = Calls(LilaOut_TellSri(sri, payload), FanOut(targets, RawText(payload), failing))
    /\ nlilaout' = nlilaout + 1
    /\ UNCHANGED <<statVars, guardVars, histVars, appVars, chanVars, mainpc, socket_id, ws, lk, panicked, nframes, sock>>

ReceivedTellSri == \E sri \in Sris, payload \in Payloads : received_TellSri(sri, payload)

\* The user lists of a tell/users line: one user, two users, one user twice.
UserLists == { <<u>> : u \in Users } \cup { <<u, v>> : u \in Users, v \in Users }

LilaOut_TellUsers(users, payload) ==
    [NoMsg EXCEPT !.tag = "TellUsers", !.users = users, !.payload = payload]

\* A tell/users that goes to the sockets of every user.
TellUsersTargets_every_user(byu, users) == Concat(byu, DOMAIN byu)

\* Lines 202-204: for each listed user, in order, the senders of the by_user
\* entry, if there is one.
RECURSIVE TellUsersTargets(_, _)
TellUsersTargets(byu, users) ==
    IF users = <<>> THEN <<>>
    ELSE (IF Head(users) \in DOMAIN byu THEN byu[Head(users)] ELSE <<>>)
         \o TellUsersTargets(byu, Tail(users))

\* Lines 200-211: TellUsers, under the by_user read lock.
received_TellUsers(users, payload) ==
    /\ SrcReady
    /\ LET targets == TellUsersTargets(by_user, users) IN
       /\ src' = SrcIdle
       /\ \E failing \in SUBSET Range(targets) :
             sent' = Calls(LilaOut_TellUsers(users, payload), FanOut(targets, RawText(payload), failing))
    /\ nlilaout' = nlilaout + 1
    /\ UNCHANGED <<statVars, guardVars, histVars, appVars, chanVars, mainpc, socket_id, ws, lk, panicked, nframes, sock>>

ReceivedTellUsers == \E users \in UserLists, payload \in Payloads : received_TellUsers(users, payload)

LilaOut_TellFlag(flag, payload) ==
    [NoMsg EXCEPT !.tag = "TellFlag", !.flag = flag, !.payload = payload]

\* A tell/flag that goes to the subscribers of every flag.
TellFlagTargets_every_flag(fl, flag) == UNION { fl[f] : f \in Flags }

\* Line 257: the set of the flag, self.flags[flag as usize].
TellFlagTargets(fl, flag) == fl[flag]

\* Lines 256-264: TellFlag, under the read lock of the flag's set.
received_TellFlag(flag, payload) ==
    /\ SrcReady
    /\ LET targets == TellFlagTargets(flags, flag) IN
       /\ src' = SrcIdle
       /\ \E order \in Orders(targets), failing \in SUBSET targets :
             sent' = Calls(LilaOut_TellFlag(flag, payload), FanOut(order, RawText(payload), failing))
    /\ nlilaout' = nlilaout + 1
    /\ UNCHANGED <<statVars, guardVars, histVars, appVars, chanVars, mainpc, socket_id, ws, lk, panicked, nframes, sock>>

ReceivedTellFlag == \E flag \in Flags, payload \in Payloads : received_TellFlag(flag, payload)

LilaOut_DisconnectUser(uid) == [NoMsg EXCEPT !.tag = "DisconnectUser", !.uid = uid]

\* A disconnect/user that closes only the first socket of the user.
DisconnectTargets_first_only(byu, uid) ==
    IF uid \in DOMAIN byu THEN <<Head(byu[uid])>> ELSE <<>>

\* Lines 275-279: the clone of the user's senders, taken under the by_user read lock.
DisconnectTargets(byu, uid) == IF uid \in DOMAIN byu THEN byu[uid] ELSE <<>>

\* Lines 274-287: DisconnectUser.  Sender::close(CloseCode::Normal) on each of
\* the user's senders; the close handlers run later, on the event loop.
received_DisconnectUser(uid) ==
    /\ SrcReady
    /\ LET targets == DisconnectTargets(by_user, uid) IN
       /\ src' = SrcIdle
       /\ \E failing \in SUBSET Range(targets) :
             sent' = Calls(LilaOut_DisconnectUser(uid), FanOut(targets, CloseFrame("Normal"), failing))
       /\ du' = [uid |-> uid, targets |-> Range(DisconnectTargets(by_user, uid)),
                 lines |-> Len(SelectSeq(redis_sink, LAMBDA l :
                              l \in {<<"connect", uid>>, <<"disconnect", uid>>})),
                 fresh |-> TRUE]
    /\ nlilaout' = nlilaout + 1
    /\ UNCHANGED <<statVars, guardVars, last_moveLat, call, lockpc, appVars, chanVars, mainpc, socket_id, ws, lk, panicked, nframes, sock>>

ReceivedDisconnectUser == \E uid \in Users : received_DisconnectUser(uid)

\* Lines 218-222: Move, first the cache, under the watched_games write lock.
received_Move(game, fen, last_uci) ==
    /\ SrcReady
    /\ src' = [pc |-> "move_fanout", msg |-> LilaOut_Move(game, fen, last_uci)]
    /\ watched_games' = lru_put(watched_games, game, fen, last_uci)
    /\ nlilaout' = nlilaout + 1
    /\ sent' = NoSent
    /\ UNCHANGED <<statVars, guardVars, histVars, by_user, by_game, by_sri, by_id, flags, watching_mlat, mlat, connection_count,
                   chanVars, mainpc, socket_id, ws, lk, panicked, nframes, sock>>

ReceivedMovePut == \E game \in Games, p \in Positions : received_Move(game, p.fen, p.lm)

\* A fan-out that stops after the first watcher.
MoveTargets_first_only(byg, game) == IF game \in DOMAIN byg THEN <<byg[game][1]>> ELSE <<>>

\* The senders a Move is fanned out to: the by_game entry, if any (line 225).
MoveTargets(byg, game) == IF game \in DOMAIN byg THEN byg[game] ELSE <<>>

\* Lines 224-237: Move, then the fan-out, under the by_game read lock (which
\* the close handler's write lock excludes while it is held).
ReceivedMoveFanOut ==
    /\ src.pc = "move_fanout"
    /\ ws.pc # "close_flag"
    /\ LET targets == MoveTargets(by_game, src.msg.game) IN
       \E failing \in SUBSET Range(targets) :
          sent' = Calls(src.msg, FanOut(targets, SocketIn_Fen(src.msg.game, src.msg.fen, src.msg.lm), failing))
    /\ src' = SrcIdle
    /\ UNCHANGED <<statVars, guardVars, histVars, appVars, chanVars, mainpc, socket_id, ws, lk, panicked, boundVars, sock>>

\* A max that keeps its first argument.
Max_always_first(a, b) == a

Max(a, b) == IF a >= b THEN a ELSE b

\* Lines 239-243: MoveLatency, first the reply with the connection count.
received_MoveLatency(n) ==
    /\ SrcReady
    /\ src' = [pc |-> "mlat_store", msg |-> LilaOut_MoveLatency(n)]
    /\ redis_sink' = publish(redis_sink, LilaIn_Connections(Max(0, connection_count)))
    /\ nlilaout' = nlilaout + 1
    /\ sent' = NoSent
    /\ UNCHANGED <<statVars, guardVars, histVars, appVars, published, sid_sink, mainpc, socket_id, ws, lk, panicked, nframes, sock>>

ReceivedMoveLatencyPublish == \E n \in Latencies : received_MoveLatency(n)

\* Lines 245-246: store the latency.
ReceivedMoveLatencyStore ==
    /\ src.pc = "mlat_store"
    /\ mlat' = src.msg.n
    /\ src' = [src EXCEPT !.pc = "mlat_broadcast"]
    /\ sent' = NoSent
    /\ UNCHANGED <<statVars, guardVars, histVars, by_user, by_game, by_sri, by_id, watched_games, flags, watching_mlat,
                   connection_count, chanVars, mainpc, socket_id, ws, lk, panicked, boundVars, sock>>

\* Lines 248-254: the broadcast to watching_mlat, under its read lock.
ReceivedMoveLatencyBroadcast ==
    /\ src.pc = "mlat_broadcast"
    /\ \E order \in Orders(watching_mlat), failing \in SUBSET watching_mlat :
          sent' = Calls(src.msg, FanOut(order, SocketIn_MoveLatency(src.msg.n), failing))
    /\ src' = SrcIdle
    /\ UNCHANGED <<statVars, guardVars, histVars, appVars, chanVars, mainpc, socket_id, ws, lk, panicked, boundVars, sock>>

\* The lobby aggregates lila reports.
RoundCounts == {3}
MemberCounts == {5}
LilaOut_RoundNb(nb) == [NoMsg EXCEPT !.tag = "RoundNb", !.n = nb]
LilaOut_MemberNb(nb) == [NoMsg EXCEPT !.tag = "MemberNb", !.n = nb]

\* Lines 288-290: RoundNb.
ReceivedRoundNb ==
    /\ SrcReady
    /\ \E nb \in RoundCounts :
          /\ round_count' = nb
          /\ sent' = Calls(LilaOut_RoundNb(nb), <<>>)
    /\ nlilaout' = nlilaout + 1
    /\ UNCHANGED <<member_count, guardVars, histVars, appVars, chanVars, threadVars, nframes, sock>>

\* Lines 291-293: MemberNb.
ReceivedMemberNb ==
    /\ SrcReady
    /\ \E nb \in MemberCounts :
          /\ member_count' = nb
          /\ sent' = Calls(LilaOut_MemberNb(nb), <<>>)
    /\ nlilaout' = nlilaout + 1
    /\ UNCHANGED <<round_count, guardVars, histVars, appVars, chanVars, threadVars, nframes, sock>>

(***************************************************************************)
(* The system.                                                             *)
(***************************************************************************)
\* The connection lifecycle, common to every specification.
Lifecycle(handshakes) ==
    \/ Main
    \/ Accept
    \/ OnOpenStart(handshakes)
    \/ OnOpenById
    \/ OnOpenFlag
    \/ OnOpenSri
    \/ OnCloseStart
    \/ OnCloseById
    \/ OnCloseSetUser
    \/ OnCloseByGame
    \/ OnCloseFlag

\* Users: the session lookup and the user-gated frames.
NextUser ==
    \/ Lifecycle(Handshakes)
    \/ LookupRecv
    \/ LookupDeliver
    \/ OnMessageNotified
    \/ OnMessageFollowingOnlines

SpecUser == Init /\ [][NextUser]_vars

\* Games: startWatching and the moves from lila.
NextGame ==
    \/ Lifecycle(HandshakesShort)
    \/ OnMessageStartWatching
    \/ StartWatchingPeek
    \/ StartWatchingSubscribe
    \/ ReceivedMovePut
    \/ ReceivedMoveFanOut

SpecGame == Init /\ [][NextGame]_vars

\* Page sessions: tell/sri from lila.
NextSri ==
    \/ Lifecycle(Handshakes)
    \/ ReceivedTellSri
    \/ ReceivedTellFlag

SpecSri == Init /\ [][NextSri]_vars

\* The up channel: what the redis sink thread publishes, and in which order.
NextUp ==
    \/ Lifecycle(HandshakesShort)
    \/ RedisSink
    \/ LookupRecv
    \/ LookupDeliver
    \/ ReceivedMoveLatencyPublish
    \/ ReceivedMoveLatencyStore
    \/ ReceivedMoveLatencyBroadcast

SpecUp == Init /\ [][NextUp]_vars

\* Pings: the replies, the lag lines and the lobby aggregates.
NextPing ==
    \/ Lifecycle(HandshakesPing)
    \/ LookupRecv
    \/ LookupDeliver
    \/ OnMessagePing
    \/ OnMessageNull
    \/ ReceivedRoundNb
    \/ ReceivedMemberNb

SpecPing == Init /\ [][NextPing]_vars

(***************************************************************************)
(* ipc.rs: LilaOut::parse, and the loop of the redis source thread.  A     *)
(* line is its tag, the number of space-separated arguments after it and   *)
(* the arguments its tag reads: a raw game id, raw user ids, a flag, a raw *)
(* sri, a number, a move, a FEN, a payload.                                *)
(***************************************************************************)
\* UserId::new: 1 to 30 characters, each ASCII alphanumeric, - or _; the id is
\* the lowercased text.  A raw id is modelled as [len, chars, text, lower].
UserId_new(raw) == IF raw.len > 0 /\ raw.len <= 30 /\ raw.chars THEN raw.lower ELSE "err"

RawAlice == [len |-> 5, chars |-> TRUE, text |-> "Alice", lower |-> "alice"]
RawBob == [len |-> 3, chars |-> TRUE, text |-> "bob", lower |-> "bob"]
RawUserIds ==
    { RawAlice, RawBob,
      [len |-> 0, chars |-> TRUE, text |-> "", lower |-> ""],
      [len |-> 31, chars |-> TRUE, text |-> "aliceeeeeeeeeeeeeeeeeeeeeeeeeee", lower |-> "aliceeeeeeeeeeeeeeeeeeeeeeeeeee"],
      [len |-> 5, chars |-> FALSE, text |-> "al!ce", lower |-> "al!ce"] }

\* str::parse::<u32>: decimal digits of a value that fits.  A raw number is
\* modelled as [digits, v].
u32_parse_ok(raw) == raw.digits /\ raw.v >= 0
RawNumbers == { [digits |-> TRUE, v |-> 7], [digits |-> FALSE, v |-> 0] }

RawGameA == CHOOSE r \in RawGameIds : GameId_new(r) # "err"
NoLine ==
    [tag |-> "", nargs |-> 0, game |-> RawGameA, users |-> <<>>, flag |-> "", sri |-> SriA,
     num |-> [digits |-> TRUE, v |-> 7], uci |-> "", fen |-> "", payload |-> ""]

\* The lines lila sends: every tag with all its arguments, valid and not,
\* with arguments missing, and a tag that parse does not know.
Lines ==
    { [NoLine EXCEPT !.tag = "move", !.nargs = 3, !.game = g, !.uci = "e2e4", !.fen = "fen1"] :
        g \in RawGameIds }
    \cup { [NoLine EXCEPT !.tag = "move", !.nargs = n, !.uci = "e2e4"] : n \in {0, 2} }
    \cup { [NoLine EXCEPT !.tag = "tell/user", !.nargs = n, !.users = <<RawAlice>>, !.payload = "payload1"] :
             n \in {1, 2} }
    \cup { [NoLine EXCEPT !.tag = "tell/users", !.nargs = 2, !.users = us, !.payload = "payload1"] :
             us \in { <<RawAlice, u>> : u \in RawUserIds \ {RawAlice} }
                    \cup { <<u, RawBob>> : u \in RawUserIds \ {RawAlice, RawBob} } }
    \cup { [NoLine EXCEPT !.tag = "tell/flag", !.nargs = 2, !.flag = f, !.payload = "payload1"] :
             f \in {"simul", "tournament", "bogus"} }
    \cup { [NoLine EXCEPT !.tag = "tell/flag", !.nargs = 1, !.flag = "simul"] }
    \cup { [NoLine EXCEPT !.tag = "tell/sri", !.nargs = 2, !.sri = r, !.payload = "payload1"] :
             r \in {SriA, SriTooLong} }
    \cup { [NoLine EXCEPT !.tag = "tell/sri", !.nargs = 1] }
    \cup { [NoLine EXCEPT !.tag = "disconnect/user", !.nargs = 1, !.users = <<u>>] :
             u \in {RawAlice} \cup { r \in RawUserIds : r.len = 0 } }
    \cup { [NoLine EXCEPT !.tag = "disconnect/user", !.nargs = 0] }
    \cup { [NoLine EXCEPT !.tag = "mlat", !.nargs = 1, !.num = x] : x \in RawNumbers }
    \cup { [NoLine EXCEPT !.tag = "mlat", !.nargs = 0] }
    \cup { [NoLine EXCEPT !.tag = "bogus", !.nargs = 1, !.payload = "payload1"] }

IpcError == [ok |-> FALSE, msg |-> NoMsg]
Parsed(msg) == [ok |-> TRUE, msg |-> msg]

\* A tell/users that leaves out the ids that are not valid.
UserIds_collect_valid(raws) ==
    LET valid == SelectSeq(raws, LAMBDA r : UserId_new(r) # "err") IN
    [ok |-> valid # <<>>, users |-> [i \in 1..Len(valid) |-> UserId_new(valid[i])]]

\* Line 54: split(',').map(UserId::new).collect() into a Result: the ids, or
\* the error of the first one that is not valid.
UserIds_collect(raws) ==
    IF \E i \in 1..Len(raws) : UserId_new(raws[i]) = "err" THEN [ok |-> FALSE, users |-> <<>>]
    ELSE [ok |-> TRUE, users |-> [i \in 1..Len(raws) |-> UserId_new(raws[i])]]

\* Lines 41-87: LilaOut::parse.
LilaOut_parse(line) ==
    CASE line.tag = "move" /\ line.nargs >= 1 ->
           IF GameId_new(line.game) = "err" \/ line.nargs < 3 THEN IpcError
           ELSE Parsed(LilaOut_Move(GameId_new(line.game), line.fen, line.uci))
      [] line.tag \in {"tell/user", "tell/users"} /\ line.nargs >= 1 ->
           IF ~UserIds_collect(line.users).ok \/ line.nargs < 2 THEN IpcError
           ELSE Parsed(LilaOut_TellUsers(UserIds_collect(line.users).users, line.payload))
      [] line.tag = "tell/flag" /\ line.nargs >= 1 ->
           IF Flag_from_str(line.flag) = "err" \/ line.nargs < 2 THEN IpcError
           ELSE Parsed(LilaOut_TellFlag(Flag_from_str(line.flag), line.payload))
      [] line.tag = "tell/sri" /\ line.nargs >= 1 ->
           IF Sri_new(line.sri) = "err" \/ line.nargs < 2 THEN IpcError
           ELSE Parsed(LilaOut_TellSri(Sri_new(line.sri), line.payload))
      [] line.tag = "disconnect/user" /\ line.nargs >= 1 ->
           IF UserId_new(line.users[1]) = "err" THEN IpcError
           ELSE Parsed(LilaOut_DisconnectUser(UserId_new(line.users[1])))
      [] line.tag = "mlat" /\ line.nargs >= 1 ->
           IF ~u32_parse_ok(line.num) THEN IpcError
           ELSE Parsed(LilaOut_MoveLatency(line.num.v))
      [] OTHER -> IpcError

\* The line that was logged and dropped.
Invalid(line) == [NoMsg EXCEPT !.tag = "Err", !.frame = Frame(line.tag, line.nargs, line)]

\* main.rs lines 806-821: one turn of the source thread's loop.  A line that
\* does not parse is logged; a parsed message goes to App::received.
ReceivedLine ==
    \E line \in Lines :
        LET r == LilaOut_parse(line) IN
        IF ~r.ok
        THEN /\ SrcReady
             /\ sent' = Calls(Invalid(line), <<>>)
             /\ nlilaout' = nlilaout + 1
             /\ UNCHANGED <<statVars, guardVars, histVars, appVars, chanVars, threadVars, nframes, sock>>
        ELSE LET m == r.msg IN
             CASE m.tag = "Move" -> received_Move(m.game, m.fen, m.lm)
               [] m.tag = "TellUsers" -> received_TellUsers(m.users, m.payload)
               [] m.tag = "TellFlag" -> received_TellFlag(m.flag, m.payload)
               [] m.tag = "TellSri" -> received_TellSri(m.sri, m.payload)
               [] m.tag = "DisconnectUser" -> received_DisconnectUser(m.uid)
               [] m.tag = "MoveLatency" -> received_MoveLatency(m.n)

(***************************************************************************)
(* Every fan-out of App::received.  The specification starts where the     *)
(* sockets are in every index: each has opened /socket/v4 with an sri, the *)
(* simul flag and a session cookie, has been authenticated as some user    *)
(* and has sent startWatching for some game and moveLat true.              *)
(* From there the sockets close and lila's lines arrive.                   *)
(***************************************************************************)
\* The sockets that f maps to k, in the order they were opened.
SendersWith(f, k) == SelectSeq([i \in 1..MaxSockets |-> SenderOf(i)], LAMBDA s : f[s] = k)
\* The first socket of each value of f, in the order they were opened.
Firsts(f) == SelectSeq([i \in 1..MaxSockets |-> i], LAMBDA s : \A r \in 1..(s - 1) : f[r] # f[s])

Registered(user, game, moveLat, cache) ==
    /\ mainpc = Len(MainSteps) + 1
    /\ socket_id = MaxSockets
    /\ sock = [s \in SocketIds |->
                 [st |-> "open", endpoint |-> "site", sri |-> Sri_new(SriA), flag |-> "simul",
                  watching |-> {game[s]}]]
    /\ by_user = [u \in { user[s] : s \in SocketIds } |-> SendersWith(user, u)]
    /\ by_game = [g \in { game[s] : s \in SocketIds } |-> SendersWith(game, g)]
    /\ by_sri = [k \in {Sri_new(SriA)} |-> [i \in 1..MaxSockets |-> SenderOf(i)]]
    /\ by_id = [s \in SocketIds |->
                  [sender |-> SenderOf(s), sri |-> Sri_new(SriA), endpoint |-> "site",
                   auth |-> Authenticated(user[s]), pending_notified |-> FALSE,
                   pending_following_onlines |-> FALSE]]
    /\ watched_games = cache
    /\ flags = [f \in Flags |-> IF f = "simul" THEN { SenderOf(s) : s \in SocketIds } ELSE {}]
    /\ watching_mlat = { SenderOf(s) : s \in moveLat }
    /\ mlat = U32Max
    /\ round_count = 0
    /\ member_count = 0
    /\ connection_count = MaxSockets
    /\ redis_sink = <<LilaIn_fmt(LilaIn_DisconnectAll)>>
                    \o [i \in 1..Len(Firsts(user)) |-> LilaIn_fmt(LilaIn_Connect(user[Firsts(user)[i]]))]
                    \o [i \in 1..Len(Firsts(game)) |-> LilaIn_fmt(LilaIn_Watch(game[Firsts(game)[i]]))]
    /\ published = 0
    /\ sid_sink = <<>>
    /\ ws = WsIdle
    /\ lk = LkIdle
    /\ src = SrcIdle
    /\ sent = NoSent
    /\ panicked = FALSE
    /\ nframes = 0
    /\ nlilaout = 0
    /\ last_moveLat = [s \in SocketIds |-> s \in moveLat]
    /\ du = NoDisconnectUser
    /\ call = NoCall
    /\ lockpc = [t \in Threads |-> NoScript]
    /\ client_addr = [s \in SocketIds |-> NoAddr]
    /\ rate_limited_once = [s \in SocketIds |-> FALSE]
    /\ rate_limiter = [a \in Addrs |-> Credits]
    /\ idle_timeout = [s \in SocketIds |-> 0]
    /\ timer = [s \in SocketIds |-> sender_timeout([x \in SocketIds |-> NoTimer], s)[s]]
    /\ burst = [a \in Addrs |-> 0]
    /\ cancelled = [s \in SocketIds |-> {}]
    /\ size_closed = [s \in SocketIds |-> FALSE]

InitFan ==
    \E user \in [SocketIds -> Users], game \in [SocketIds -> Games] :
        Registered(user, game, SocketIds, <<>>)

NextFan ==
    \/ OnCloseStart
    \/ OnCloseById
    \/ OnCloseSetUser
    \/ OnCloseByGame
    \/ OnCloseFlag
    \/ ReceivedTellUsers
    \/ ReceivedTellFlag
    \/ ReceivedTellSri
    \/ ReceivedMovePut
    \/ ReceivedMoveFanOut
    \/ ReceivedMoveLatencyPublish
    \/ ReceivedMoveLatencyStore
    \/ ReceivedMoveLatencyBroadcast
    \/ ReceivedDisconnectUser

SpecFan == InitFan /\ [][NextFan]_vars

\* The lines of lila, parsed and dispatched, over sockets that are in every index.
NextIpc ==
    \/ OnCloseStart
    \/ OnCloseById
    \/ OnCloseSetUser
    \/ OnCloseByGame
    \/ OnCloseFlag
    \/ ReceivedLine
    \/ ReceivedMoveFanOut
    \/ ReceivedMoveLatencyStore
    \/ ReceivedMoveLatencyBroadcast

SpecIpc == InitFan /\ [][NextIpc]_vars

(***************************************************************************)
(* The cache of game states at its capacity.  The specification starts     *)
(* where lila has sent moves of LruCapacity - 1 other games (the i-th of   *)
(* them is the game ToString(i), the last one moved first in the cache)    *)
(* and the sockets are registered and watch one game.                      *)
(***************************************************************************)
Moved(n) == [i \in 1..n |-> [game |-> ToString(i), fen |-> "fen1", lm |-> "e2e4"]]

InitLru ==
    Registered([s \in SocketIds |-> "alice"], [s \in SocketIds |-> "gameAAAA"], SocketIds,
               Moved(LruCapacity - 1))

NextLru ==
    \/ OnCloseStart
    \/ OnCloseById
    \/ OnCloseSetUser
    \/ OnCloseByGame
    \/ OnCloseFlag
    \/ OnMessageStartWatching
    \/ StartWatchingPeek
    \/ StartWatchingSubscribe
    \/ ReceivedMovePut
    \/ ReceivedMoveFanOut

SpecLru == InitLru /\ [][NextLru]_vars

\* The evaluation cache: evalGet and evalPut.
NextEval ==
    \/ Lifecycle(HandshakesPing)
    \/ LookupRecv
    \/ LookupDeliver
    \/ OnMessageEval

SpecEval == Init /\ [][NextEval]_vars

\* The analysis board.
NextAna ==
    \/ Lifecycle(HandshakesShort)
    \/ OnMessageAnalysis

SpecAna == Init /\ [][NextAna]_vars

\* The guards of on_message and the idle timeout.
NextGuard ==
    \/ Lifecycle(HandshakesGuard)
    \/ OnMessageGuarded
    \/ Refill
    \/ OnNewTimeout
    \/ OnTimeout

SpecGuard == Init /\ [][NextGuard]_vars

\* disconnect/user: the close of a user's sockets on lila's order.
NextKick ==
    \/ Lifecycle(HandshakesShort)
    \/ LookupRecv
    \/ LookupDeliver
    \/ ReceivedDisconnectUser

SpecKick == Init /\ [][NextKick]_vars

\* tell/users: the messages lila addresses to users.
NextTell ==
    \/ Lifecycle(HandshakesShort)
    \/ LookupRecv
    \/ LookupDeliver
    \/ ReceivedTellUsers

SpecTell == Init /\ [][NextTell]_vars

\* Move latency: the subscriptions of the sockets and the heartbeat of lila.
NextMlat ==
    \/ Lifecycle(HandshakesShort)
    \/ OnMessageMoveLatency
    \/ ReceivedMoveLatencyPublish
    \/ ReceivedMoveLatencyStore
    \/ ReceivedMoveLatencyBroadcast

SpecMlat == Init /\ [][NextMlat]_vars

(***************************************************************************)
(* Properties.                                                             *)
(***************************************************************************)
\* A socket exists from the start of its open handler to the end of its close
\* handler.
Live(s) == sock[s].st \in {"opening", "open", "closing"}

\* The authentication state of a socket: that of its UserSocket, which is in
\* by_id or, once on_close has removed it, in on_close's local until
\* set_user(None) has run on it.
AuthOf(s) ==
    IF s \in DOMAIN by_id THEN by_id[s].auth
    ELSE IF ws.pc = "close_set_user" /\ ws.s = s THEN ws.us.auth
    ELSE Anonymous

AuthenticatedAs(u) == { s \in SocketIds : Live(s) /\ AuthOf(s) = Authenticated(u) }

NoDuplicates(v) == \A i, j \in 1..Len(v) : v[i] = v[j] => i = j

\* C1: a user is a key of by_user iff some live socket is Authenticated as that
\* user, and by_user[u] holds the sender of each such socket exactly once: no
\* empty list, no duplicate, no sender of a closed socket.
C1_UserPresence ==
    /\ DOMAIN by_user \subseteq Users
    /\ \A u \in Users :
          /\ u \in DOMAIN by_user <=> AuthenticatedAs(u) # {}
          /\ u \in DOMAIN by_user =>
                /\ by_user[u] # <<>>
                /\ NoDuplicates(by_user[u])
                /\ Range(by_user[u]) = { SenderOf(s) : s \in AuthenticatedAs(u) }

\* Two sockets are authenticated as one user and the close handler of one of
\* them has removed its UserSocket from by_id but not yet its sender from by_user.
C1_Witness ==
    \E u \in DOMAIN by_user :
        /\ Len(by_user[u]) = 2
        /\ ws.pc = "close_set_user"
        /\ ws.us.auth = Authenticated(u)

\* The connect and disconnect lines of user u in a sequence of lines.
UserLines(lines, u) ==
    SelectSeq(lines, LAMBDA l : Len(l) = 2 /\ l[1] \in {"connect", "disconnect"} /\ l[2] = u)

Alternates(lines, first, second) ==
    \A i \in 1..Len(lines) : lines[i][1] = IF i % 2 = 1 THEN first ELSE second

\* The lines a step adds to the channel.
Enqueued == SubSeq(redis_sink', Len(redis_sink) + 1, Len(redis_sink'))

C2_Alternation ==
    \A u \in Users :
        /\ Alternates(UserLines(redis_sink, u), "connect", "disconnect")
        /\ u \in DOMAIN by_user <=> Len(UserLines(redis_sink, u)) % 2 = 1

C2_Transition ==
    /\ Len(redis_sink') >= Len(redis_sink)
    /\ SubSeq(redis_sink', 1, Len(redis_sink)) = redis_sink
    /\ \A u \in Users :
          UserLines(Enqueued, u) =
             IF u \notin DOMAIN by_user /\ u \in DOMAIN by_user' THEN <<<<"connect", u>>>>
             ELSE IF u \in DOMAIN by_user /\ u \notin DOMAIN by_user' THEN <<<<"disconnect", u>>>>
             ELSE <<>>

\* C2: for every user the connect and disconnect lines of the channel
\* alternate, starting with connect; a step enqueues one connect u exactly when
\* it makes u a key of by_user and one disconnect u exactly when it removes
\* the key, in the same step, so in the order of the transitions.
C2_ConnectDisconnect == [](C2_Alternation) /\ [][C2_Transition]_vars

\* A user has connected, disconnected and connected again.
C2_Witness == \E u \in Users : Len(UserLines(redis_sink, u)) >= 3

\* The sockets that watch game g.
Watching(g) == { s \in SocketIds : Live(s) /\ g \in sock[s].watching }

\* C3: between handlers, a game is a key of by_game iff some live socket has it
\* in its watching set, and by_game[g] holds the sender of each such socket
\* exactly once.
C3_GameWatch ==
    ws.pc = "idle" =>
        \A g \in Games :
            /\ g \in DOMAIN by_game <=> Watching(g) # {}
            /\ g \in DOMAIN by_game =>
                  /\ NoDuplicates(by_game[g])
                  /\ Range(by_game[g]) = { SenderOf(s) : s \in Watching(g) }

\* The watch and unwatch lines of game g in a sequence of lines.
GameLines(lines, g) ==
    SelectSeq(lines, LAMBDA l : Len(l) = 2 /\ l[1] \in {"watch", "unwatch"} /\ l[2] = g)

C4_Alternation ==
    \A g \in Games :
        /\ Alternates(GameLines(redis_sink, g), "watch", "unwatch")
        /\ g \in DOMAIN by_game <=> Len(GameLines(redis_sink, g)) % 2 = 1
        /\ g \in DOMAIN by_game => by_game[g] # <<>>

\* What a step does to by_game[g]: nothing to the key, or it adds the key
\* with one watcher, or it removes the key.  A close handler may, for two
\* games, do both in one step, each game's line once.
C4_Transition ==
    /\ SubSeq(redis_sink', 1, Len(redis_sink)) = redis_sink
    /\ \A g \in Games :
          GameLines(Enqueued, g) =
             IF g \notin DOMAIN by_game /\ g \in DOMAIN by_game' THEN <<<<"watch", g>>>>
             ELSE IF g \in DOMAIN by_game /\ g \notin DOMAIN by_game' THEN <<<<"unwatch", g>>>>
             ELSE <<>>
    /\ \A g \in Games :
          g \notin DOMAIN by_game /\ g \in DOMAIN by_game' => Len(by_game'[g]) = 1

\* C4: for every game the watch and unwatch lines of the channel alternate,
\* starting with watch; a step enqueues one watch g exactly when it adds g to
\* by_game (with one watcher) and one unwatch g exactly when it removes the
\* last watcher of g.
C4_WatchUnwatch == [](C4_Alternation) /\ [][C4_Transition]_vars

\* A game has been watched, unwatched by a close, and watched again.
C4_Witness == \E g \in Games : Len(GameLines(redis_sink, g)) >= 3

\* The step of the event loop that handles the next game of a startWatching
\* frame, when the socket already watches that game.
C5_Repeated ==
    /\ ws.pc = "watch_peek"
    /\ ws' # ws
    /\ Head(ws.games) \in sock[ws.s].watching

C5_Skipped ==
    /\ by_game' = by_game
    /\ sock' = sock
    /\ redis_sink' = redis_sink
    /\ watched_games' = watched_games
    /\ sent'.calls = <<>>
    /\ ws'.games = Tail(ws.games)
    /\ ws'.pc \in {"watch_peek", "idle"}

\* C5: startWatching of a game the socket already watches (from an earlier
\* frame or earlier in the same frame) changes neither by_game nor the
\* watching set nor the channel, sends no frame and goes on to the next game,
\* so that no by_game entry ever holds a sender twice.
C5_IdempotentStartWatching ==
    [](\A g \in DOMAIN by_game : NoDuplicates(by_game[g])) /\ [][C5_Repeated => C5_Skipped]_vars

\* A game repeated in one frame has just been skipped; the socket is in by_game once.
C5_Witness ==
    /\ sent.cause.tag = "startWatching"
    /\ sent.calls = <<>>
    /\ ws.pc = "idle"
    /\ sent.cause.game \in DOMAIN by_game
    /\ Count(by_game[sent.cause.game], SenderOf(sent.cause.n)) = 1
    /\ nframes = 1

\* C6: a TellSri(sri, payload) makes exactly one send of exactly the payload to
\* each sender of by_sri[sri], which are the open sockets whose handshake
\* carried that sri, and no call on any other socket.
C6_SriRoundTrip ==
    sent.cause.tag = "TellSri" =>
        LET sri == sent.cause.sri
            to == [i \in 1..Len(sent.calls) |-> sent.calls[i].to]
            targets == { s \in SocketIds : sock[s].st = "open" /\ sock[s].sri = sri }
        IN  /\ NoDuplicates(to)
            /\ Range(to) = { SenderOf(s) : s \in targets }
            /\ (sri \in DOMAIN by_sri => to = by_sri[sri])
            /\ (sri \notin DOMAIN by_sri => to = <<>>)
            /\ \A i \in 1..Len(sent.calls) : sent.calls[i].frame = RawText(sent.cause.payload)

\* A tell/sri has reached one socket while a socket of another sri is open.
C6_Witness ==
    /\ sent.cause.tag = "TellSri"
    /\ Len(sent.calls) = 1
    /\ \E s \in SocketIds :
          sock[s].st = "open" /\ sock[s].sri \notin {NoSri, sent.cause.sri}

CacheEntry(cache, g) ==
    IF lru_contains(cache, g) THEN lru_peek(cache, g) ELSE [game |-> g, fen |-> "", lm |-> ""]

\* A step of the source thread that handles Move(g, fen, lm) writes {fen, lm};
\* no other step changes the cached state of a game (eviction aside).
C7_Written ==
    /\ (src.pc = "recv" /\ src'.pc = "move_fanout") =>
          CacheEntry(watched_games', src'.msg.game) =
             [game |-> src'.msg.game, fen |-> src'.msg.fen, lm |-> src'.msg.lm]
    /\ \A g \in Games :
          CacheEntry(watched_games', g) # CacheEntry(watched_games, g) =>
             /\ src.pc = "recv" /\ src'.pc = "move_fanout"
             /\ src'.msg.game = g \/ Len(watched_games) = LruCapacity

\* A step that puts a new game into a socket's watching set sends that socket
\* one fen frame with the cached fen and lm, if the game is cached.
C7_Read ==
    (ws.pc = "watch_peek" /\ ws' # ws /\ Head(ws.games) \notin sock[ws.s].watching) =>
        LET g == Head(ws.games) IN
        IF lru_contains(watched_games, g)
        THEN /\ Len(sent'.calls) = 1
             /\ sent'.calls[1].to = SenderOf(ws.s)
             /\ sent'.calls[1].frame =
                   SocketIn_Fen(g, CacheEntry(watched_games, g).fen, CacheEntry(watched_games, g).lm)
        ELSE sent'.calls = <<>>

\* C7: once Move(g, fen, lm) is handled the cache holds {fen, lm} for g until a
\* later Move replaces or evicts it, and a startWatching of g by a socket that
\* does not watch it yet sends that socket at once one fen frame with the
\* cached fen and lm.
C7_CacheConsistency == [][C7_Written /\ C7_Read]_vars

\* After two moves of one game, a new watcher has been sent the second state.
C7_Witness ==
    /\ sent.cause.tag = "startWatching"
    /\ Len(sent.calls) = 1
    /\ nlilaout = 2
    /\ Len(watched_games) = 1
    /\ src.pc = "recv"
    /\ \E p \in Positions :
          /\ sent.calls[1].frame = SocketIn_Fen(sent.cause.game, p.fen, p.lm)
          /\ CacheEntry(watched_games, sent.cause.game).fen = p.fen

C9_DisconnectAllFirst ==
    /\ published <= Len(redis_sink)
    /\ \A i \in 1..Len(redis_sink) : (redis_sink[i] = <<"disconnect/all">>) <=> (i = 1)

\* The sink thread has published disconnect/all, a connect and a connections line.
C9_Witness ==
    /\ published >= 3
    /\ \E i, j \in 2..published : redis_sink[i][1] = "connect" /\ redis_sink[j][1] = "connections"

\* C10: every socket whose open handler has completed has its entry in by_id
\* until its close handler removes it, so no handler fails to find it.
C10_ByIdLifetime ==
    /\ \A s \in SocketIds : sock[s].st = "open" => s \in DOMAIN by_id
    /\ \A s \in SocketIds :
          (sock[s].st = "closing" /\ ws.s = s /\ ws.pc = "close_by_id") => s \in DOMAIN by_id
    /\ ~panicked

\* The indexes in which the sender of socket s occurs.
InBySri(s) == \E k \in DOMAIN by_sri : SenderOf(s) \in Range(by_sri[k])
InByGame(s) == \E g \in DOMAIN by_game : SenderOf(s) \in Range(by_game[g])
InByUser(s) == \E u \in DOMAIN by_user : SenderOf(s) \in Range(by_user[u])
InFlags(s) == \E f \in Flags : SenderOf(s) \in flags[f]

\* C11: once the close handler of a socket has completed, its sender is in
\* none of by_sri, by_game, flags, watching_mlat and by_user, its id is not a
\* key of by_id, and connection_count counts the sockets whose open handler
\* has started and whose close handler has not (each close decrements once).
C11_CloseCleanup ==
    /\ \A s \in SocketIds :
          sock[s].st = "closed" =>
             /\ ~InBySri(s) /\ ~InByGame(s) /\ ~InFlags(s) /\ ~InByUser(s)
             /\ SenderOf(s) \notin watching_mlat
             /\ s \notin DOMAIN by_id
    /\ connection_count = Cardinality({ s \in SocketIds : sock[s].st \in {"opening", "open"} })

\* C12: every {"t":"p"} frame and every null frame whose handler returns makes one
\* reply to the socket that sent it: "0", or on the lobby endpoint the lobby
\* counters with the current round_count and member_count.
C12_PingReply ==
    (sent.cause.tag \in {"p", "null"} /\ ws.pc # "panicked") =>
        /\ Len(sent.calls) = 1
        /\ sent.calls[1].to = SenderOf(sent.cause.n)
        /\ sent.calls[1].frame = IF sock[sent.cause.n].endpoint = "lobby"
                                 THEN LobbyPong(round_count, member_count)
                                 ELSE RawText("0")

\* The session lookups of socket s that are requested and not yet delivered.
Outstanding(s) ==
    Cardinality({ i \in 1..Len(sid_sink) : sid_sink[i][1] = s })
      + (IF lk.pc = "deliver" /\ lk.socket_id = s THEN 1 ELSE 0)

C13_OneLookup == \A s \in SocketIds : Outstanding(s) <= 1

\* The auth state of a socket is that of its by_id entry.  It starts when
\* on_open inserts the entry and changes only from Requested.
C13_Transition ==
    /\ ws.pc = "idle" /\ ws'.pc = "open_by_id" =>
          (ws'.auth = Requested <=> ws'.hs.cookie # NoCookie) /\ ws'.auth \in {Requested, Anonymous}
    /\ \A s \in DOMAIN by_id' \ DOMAIN by_id :
          /\ by_id'[s].auth \in {Requested, Anonymous}
          /\ by_id'[s].auth = Requested <=> ws.hs.cookie # NoCookie
    /\ \A s \in DOMAIN by_id \cap DOMAIN by_id' :
          by_id'[s].auth # by_id[s].auth =>
             /\ by_id[s].auth = Requested
             /\ by_id'[s].auth = Anonymous \/ by_id'[s].auth.tag = "Authenticated"
             /\ Outstanding(s) = 1 /\ Outstanding(s)' = 0

\* C13: a socket starts Requested iff its handshake carried a decodable
\* session cookie, else Anonymous; its auth state changes only from Requested,
\* to Authenticated(u) or Anonymous, by the delivery of its one lookup (so never
\* from Authenticated(u) to Authenticated(v)); at most one lookup is
\* outstanding per socket.
C13_AuthStateMachine == [](C13_OneLookup) /\ [][C13_Transition]_vars

\* One socket has been authenticated, another was resolved to Anonymous after
\* starting Requested.
C13_Witness ==
    \E s, r \in DOMAIN by_id :
        /\ by_id[s].auth.tag = "Authenticated"
        /\ by_id[r].auth = Anonymous
        /\ sid_sink = <<>> /\ lk.pc = "recv"
        /\ Cardinality({ i \in 1..Len(redis_sink) : redis_sink[i][1] = "connect" }) = 1

\* The delivery of a lookup result for a socket that by_id does not hold.
C14_Late == lk.pc = "deliver" /\ lk' # lk /\ lk.socket_id \notin DOMAIN by_id

C14_NoEffect ==
    /\ UNCHANGED <<appVars, statVars, redis_sink, sock>>
    /\ sent'.calls = <<>>

\* C14: the delivery of a lookup result for a socket whose by_id entry the
\* close handler has removed changes no index and enqueues no line; by_user
\* never holds the sender of a closed socket.
C14_LateLookupDropped ==
    /\ [](\A s \in SocketIds : sock[s].st = "closed" => ~InByUser(s))
    /\ [][C14_Late => C14_NoEffect]_vars

\* A lookup that found a user has been delivered for a socket that was closed
\* while the lookup was outstanding.
C14_Witness ==
    /\ sent.cause.tag = "lookup"
    /\ sent.cause.uid \in Users
    /\ sock[sent.cause.n].st = "closed"
    /\ sock[sent.cause.n].endpoint = "lobby"
    /\ by_user = EmptyMap

\* The lines of one tag in a sequence of lines.
TagLines(lines, tag) == SelectSeq(lines, LAMBDA l : l[1] = tag)

\* A notified (following_onlines) frame of a Requested socket enqueues nothing
\* and sets the pending flag; of an Authenticated(u) socket it enqueues one
\* notified u (friends u).
C15_Frame ==
    (ws.pc = "idle" /\ sent'.cause.tag \in {"notified", "following_onlines"}
       /\ sent'.cause.n \in DOMAIN by_id) =>
        LET s == sent'.cause.n
            notified == sent'.cause.tag = "notified"
            line == IF notified THEN "notified" ELSE "friends"
            pending == IF notified THEN by_id'[s].pending_notified
                       ELSE by_id'[s].pending_following_onlines
        IN  /\ by_id[s].auth = Requested => Enqueued = <<>> /\ pending
            /\ by_id[s].auth.tag = "Authenticated" =>
                  Enqueued = << <<line, by_id[s].auth.uid>> >> /\ ~pending

\* The delivery of the lookup of a Requested socket enqueues, if it found user
\* u, one notified u iff notified frames are pending and one friends u iff
\* following_onlines frames are; if it found none, nothing.  Both flags are
\* false afterwards.
C15_Resolve ==
    (lk.pc = "deliver" /\ lk' # lk /\ lk.socket_id \in DOMAIN by_id
       /\ by_id[lk.socket_id].auth = Requested) =>
        LET s == lk.socket_id
            u == sent'.cause.uid
        IN  /\ ~by_id'[s].pending_notified /\ ~by_id'[s].pending_following_onlines
            /\ u = NoUser => Enqueued = <<>> /\ by_id'[s].auth = Anonymous
            /\ u # NoUser =>
                  /\ by_id'[s].auth = Authenticated(u)
                  /\ TagLines(Enqueued, "notified") =
                        IF by_id[s].pending_notified THEN << <<"notified", u>> >> ELSE <<>>
                  /\ TagLines(Enqueued, "friends") =
                        IF by_id[s].pending_following_onlines THEN << <<"friends", u>> >> ELSE <<>>
                  /\ \A i \in 1..Len(Enqueued) : Enqueued[i][1] \in {"connect", "notified", "friends"}

\* C15: notified (following_onlines) frames received while the socket is
\* Requested enqueue nothing then; when the lookup resolves to user u exactly
\* one notified u (friends u) is enqueued however many frames were received,
\* when it resolves to Anonymous none, and the pending flags are false
\* afterwards; an Authenticated(u) socket enqueues one line per frame at once.
C15_DeferredNotified == [][C15_Frame /\ C15_Resolve]_vars

\* Two notified frames of the one Requested socket have been answered by one
\* notified line when its lookup found the user.
C15_Witness ==
    /\ sent.cause.tag = "lookup" /\ sent.cause.uid \in Users
    /\ socket_id = 1 /\ nframes = 2
    /\ Len(TagLines(redis_sink, "notified")) = 1
    /\ TagLines(redis_sink, "friends") = <<>>

\* What the handling of one {"t":"p"} frame of socket s with lag l does.
C16_Ping ==
    sent'.cause.tag = "p" =>
        LET s == sent'.cause.n
            l == sent'.cause.l
        IN  /\ Len(sent'.calls) = 1 /\ sent'.calls[1].to = SenderOf(s)
            /\ IF l.some /\ l.v >= 0 /\ s \in DOMAIN by_id
                  /\ by_id[s].auth.tag = "Authenticated"
               THEN Enqueued = << <<"lag", by_id[s].auth.uid, l.v>> >>
               ELSE Enqueued = <<>>

\* C16: a Ping with l present and l >= 0 enqueues exactly one lag line for uid
\* iff the socket is Authenticated(uid) at that moment; with l absent or
\* negative, or from a socket that is Anonymous or Requested, it enqueues
\* nothing; the reply is sent in every case.
C16_LagPublish == [][C16_Ping]_vars

\* Handling DisconnectUser(uid) calls close(Normal) on each sender of
\* by_user[uid], in order, and changes neither an index nor the channel.
C17_Handle ==
    sent'.cause.tag = "DisconnectUser" =>
        LET uid == sent'.cause.uid
            targets == IF uid \in DOMAIN by_user THEN by_user[uid] ELSE <<>>
        IN  /\ Len(sent'.calls) = Len(targets)
            /\ \A i \in 1..Len(targets) :
                  /\ sent'.calls[i].to = targets[i]
                  /\ sent'.calls[i].frame = CloseFrame("Normal")
            /\ UNCHANGED <<by_user, by_game, by_sri, by_id, flags, watching_mlat, watched_games, redis_sink>>

\* The last DisconnectUser found sockets of the user, each of them has been
\* through its close handler, and no other socket has become the user since.
C17_AllClosed ==
    /\ du.fresh /\ du.targets # {}
    /\ \A s \in du.targets : sock[s].st = "closed"

\* C17: DisconnectUser(uid) issues a Normal close to every sender in
\* by_user[uid] and mutates no index; once the close handlers of those sockets
\* have run, no other socket having authenticated as uid meanwhile, by_user has
\* no entry for uid and exactly one disconnect uid line has been enqueued.
C17_DisconnectUser ==
    /\ [](C17_AllClosed =>
            /\ du.uid \notin DOMAIN by_user
            /\ SubSeq(UserLines(redis_sink, du.uid), du.lines + 1,
                      Len(UserLines(redis_sink, du.uid))) = << <<"disconnect", du.uid>> >>)
    /\ [][C17_Handle]_vars

\* Both sockets were the user's when lila asked for the disconnect, and both
\* have been closed since.
C17_Witness == C17_AllClosed /\ Cardinality(du.targets) = 2

\* The first step of the handling of MoveLatency(m) enqueues one connections
\* line, with max(0, connection_count).
C18_Publish ==
    (src.pc = "recv" /\ src'.pc = "mlat_store") =>
        LET n == IF connection_count > 0 THEN connection_count ELSE 0 IN
            /\ Enqueued = << <<"connections", n>> >>
            /\ n \in Nat
            /\ ws.pc = "idle" => n = Cardinality({ s \in SocketIds : sock[s].st = "open" })

\* The second stores m, the third sends the mlat frame of m once to each
\* sender of watching_mlat; neither enqueues a line.
C18_Store ==
    (src.pc = "mlat_store" /\ src' # src) =>
        /\ mlat' = src.msg.n /\ src'.msg = src.msg
        /\ Enqueued = <<>>

C18_Broadcast ==
    (src.pc = "mlat_broadcast" /\ src' # src) =>
        /\ sent'.cause = src.msg /\ mlat = src.msg.n
        /\ { c.to : c \in Range(sent'.calls) } = watching_mlat
        /\ Len(sent'.calls) = Cardinality(watching_mlat)
        /\ \A c \in Range(sent'.calls) : c.frame = SocketIn_MoveLatency(src.msg.n)
        /\ Enqueued = <<>>

\* C18: handling MoveLatency(m) stores m as the current mlat, enqueues exactly
\* one connections n line with n = max(0, connection_count), which is never
\* negative and is the number of open sockets when no open or close handler is
\* in flight, and sends the mlat frame of m once to every sender in watching_mlat.
C18_Heartbeat == [][C18_Publish /\ C18_Store /\ C18_Broadcast]_vars

\* A heartbeat has reported two connections and its latency has been sent to
\* the two subscribers.
C18_Witness ==
    /\ sent.cause.tag = "MoveLatency" /\ Len(sent.calls) = 2
    /\ mlat = sent.cause.n
    /\ <<"connections", 2>> \in Range(redis_sink)

\* What one moveLat frame of socket s does to watching_mlat and to the socket.
C19_Frame ==
    sent'.cause.tag = "moveLat" =>
        LET s == sent'.cause.n
            first == SenderOf(s) \notin watching_mlat
        IN  /\ sent'.cause.d /\ first =>
                  /\ watching_mlat' = watching_mlat \cup {SenderOf(s)}
                  /\ Len(sent'.calls) = 1
                  /\ sent'.calls[1].to = SenderOf(s)
                  /\ sent'.calls[1].frame = SocketIn_MoveLatency(mlat)
            /\ sent'.cause.d /\ ~first =>
                  /\ watching_mlat' = watching_mlat
                  /\ sent'.calls = <<>>
            /\ ~sent'.cause.d =>
                  /\ watching_mlat' = watching_mlat \ {SenderOf(s)}
                  /\ sent'.calls = <<>>

\* C19: in every reachable state watching_mlat is the set of open sockets
\* whose most recent moveLat frame had d = true; a moveLat{d:true} of a socket
\* not yet subscribed inserts it and sends it one mlat frame with the stored
\* mlat, a repeated d:true sends nothing, and d:false removes the socket.
C19_MlatSubscription ==
    /\ [](watching_mlat = { SenderOf(s) : s \in { x \in SocketIds : Live(x) /\ last_moveLat[x] } })
    /\ [][C19_Frame]_vars

\* The flag a handshake selects: that of a query string with a valid sri and a
\* known flag, on a known path.
SelectedFlag(hs) ==
    IF /\ hs.path \in {"/socket/v4", "/lobby/socket/v4"}
       /\ hs.query # NoQueryString
       /\ hs.query.sri # AbsentSri /\ hs.query.sri.len <= 12 /\ ~hs.query.sri.spaces
       /\ hs.query.flag \in Flags
    THEN hs.query.flag
    ELSE NoFlag

\* The flag of a socket is the one its handshake selected, from the end of its
\* open handler to its close handler.
C20_Handshake ==
    \A s \in SocketIds :
        /\ (sock[s].st = "opening" /\ sock'[s].st = "open") =>
              /\ sock'[s].flag = SelectedFlag(ws.hs)
              /\ \A f \in Flags : SenderOf(s) \in flags'[f] <=> f = SelectedFlag(ws.hs)
        /\ (sock[s].st = "open" /\ sock'[s].st \in {"open", "closing"}) =>
              sock'[s].flag = sock[s].flag

\* The sockets of a flag: those that selected it and have not been closed.
FlagSockets(f) == { s \in SocketIds : Live(s) /\ sock[s].flag = f }

C20_Membership ==
    \A f \in Flags :
        /\ flags[f] = { SenderOf(s) : s \in FlagSockets(f) }
        /\ ws.pc = "idle" => \A s \in FlagSockets(f) : sock[s].st = "open"

C20_TellFlag ==
    sent.cause.tag = "TellFlag" =>
        LET to == [i \in 1..Len(sent.calls) |-> sent.calls[i].to] IN
        /\ NoDuplicates(to)
        /\ Range(to) = flags[sent.cause.flag]
        /\ \A i \in 1..Len(sent.calls) : sent.calls[i].frame = RawText(sent.cause.payload)

\* C20: in every reachable state flags[f] is the set of open sockets whose
\* handshake query string selected flag f, and handling TellFlag(f, payload)
\* sends payload exactly once to each member of flags[f] and to no other socket.
C20_FlagChannel == [](C20_Membership /\ C20_TellFlag) /\ [][C20_Handshake]_vars

\* A tell/flag has reached the one subscriber of its flag while a socket
\* without a flag is open.
C20_Witness ==
    /\ sent.cause.tag = "TellFlag" /\ Len(sent.calls) = 1
    /\ \E s \in SocketIds : sock[s].st = "open" /\ sock[s].flag = NoFlag /\ sock[s].endpoint # NoEndpoint

\* C21: handling TellUsers(users, payload) sends payload to every sender of
\* by_user[u] for each listed u, which are the open sockets Authenticated as a
\* listed user, and to no socket that is Anonymous, Requested or authenticated
\* as a user that is not listed.
C21_TellUsers ==
    sent.cause.tag = "TellUsers" =>
        LET users == sent.cause.users
            to == [i \in 1..Len(sent.calls) |-> sent.calls[i].to]
            listed == UNION { AuthenticatedAs(users[i]) : i \in 1..Len(users) }
        IN  /\ \A i \in 1..Len(users) :
                  users[i] \in DOMAIN by_user => Range(by_user[users[i]]) \subseteq Range(to)
            /\ Range(to) = { SenderOf(s) : s \in listed }
            /\ \A s \in SocketIds :
                  (AuthOf(s).tag # "Authenticated" \/ AuthOf(s).uid \notin Range(users)) =>
                      SenderOf(s) \notin Range(to)
            /\ ws.pc = "idle" => \A s \in listed : sock[s].st = "open"
            /\ \A i \in 1..Len(sent.calls) : sent.calls[i].frame = RawText(sent.cause.payload)

\* A tell/users for one user has reached that user's socket while the other
\* socket is open as another user.
C21_Witness ==
    /\ sent.cause.tag = "TellUsers" /\ Len(sent.calls) = 1
    /\ \E s \in SocketIds :
          /\ sock[s].st = "open" /\ AuthOf(s).tag = "Authenticated"
          /\ AuthOf(s).uid \notin Range(sent.cause.users)

\* A text frame of an open socket asks for a fresh timeout of 15 seconds.
C22_Refresh ==
    sent'.cause.tag = "frame" =>
        timer'[sent'.cause.n].req = Append(timer[sent'.cause.n].req, 15000)

\* The timeout the event loop schedules on such a request replaces the one
\* that was pending.
C22_Install ==
    sent'.cause.tag = "new_timeout" =>
        LET s == sent'.cause.n IN
        /\ timer'[s].sched = {[id |-> sent'.cause.l.v, ms |-> 15000]}
        /\ idle_timeout'[s] = sent'.cause.l.v

\* A timeout that expires closes the socket with Away, and it is not one
\* that was cancelled.
C22_Expire ==
    sent'.cause.tag = "timeout" =>
        LET s == sent'.cause.n IN
        /\ Len(sent'.calls) = 1
        /\ sent'.calls[1].to = SenderOf(s) /\ sent'.calls[1].frame = CloseFrame("Away")
        /\ sent'.cause.l.v \notin cancelled[s]

\* C22: each socket has at most one pending idle timeout at any time; every
\* inbound text frame on an open socket cancels the pending timeout and
\* installs a fresh one of 15 seconds; a timeout that expires closes the socket
\* with Away; a cancelled timeout never closes the socket.
C22_IdleTimeout ==
    /\ [](\A s \in SocketIds : Cardinality(timer[s].sched) <= 1)
    /\ [][C22_Refresh /\ C22_Install /\ C22_Expire]_vars

\* A frame of an address that has no credit left is dropped: no call on any
\* sender, no line, no change of an index, of the socket or of its timeouts.
C23_Drop ==
    sent'.cause.tag = "frame" =>
        LET s == sent'.cause.n IN
        /\ sent'.cause.d <=> (client_addr[s] = NoAddr \/ rate_limiter[client_addr[s]] > 0)
        /\ ~sent'.cause.d =>
              /\ sent'.calls = <<>> /\ Enqueued = <<>>
              /\ UNCHANGED <<appVars, sock, timerVars, size_closed>>
              /\ sock[s].st = "open"

\* C23: with N credits per 10 seconds, of the frames that arrive from one
\* address, over all its sockets, between two refills at most N are handled;
\* every frame beyond the credit is dropped with no reply, no publish and no
\* index change, and the drop does not close the socket, which stays open.
C23_RateLimit ==
    /\ [](\A a \in Addrs : burst[a] <= Credits)
    /\ [][C23_Drop]_vars

\* The frame of a socket has been dropped although no frame of that socket was
\* ever handled: the other socket of the address has used the credit.
C23_Witness ==
    /\ sent.cause.tag = "frame" /\ ~sent.cause.d
    /\ timer[sent.cause.n] = [req |-> <<15000>>, sched |-> {}, next |-> 1]
    /\ \A a \in Addrs : burst[a] = Credits

\* A frame of more than 1024 bytes is answered by a close with Size and by
\* nothing else; a shorter one is never answered by a close with Size.
C24_Close ==
    (sent'.cause.tag = "frame" /\ sent'.cause.d) =>
        LET s == sent'.cause.n
            frame == sent'.cause.frame
        IN  /\ frame.len > 1024 =>
                  /\ Len(sent'.calls) = 1
                  /\ sent'.calls[1].to = SenderOf(s) /\ sent'.calls[1].frame = CloseFrame("Size")
                  /\ Enqueued = <<>>
                  /\ UNCHANGED <<appVars, sock>>
            /\ frame.len <= 1024 =>
                  \A i \in 1..Len(sent'.calls) : sent'.calls[i].frame # CloseFrame("Size")

\* Once a socket has been closed for size, no frame of it is processed.
C24_NoLater ==
    sent'.cause.tag = "frame" => ~(size_closed[sent'.cause.n] /\ sent'.cause.d)

\* C24: a text frame longer than 1024 bytes causes the socket to be closed with
\* code Size without being parsed or dispatched (no reply, no publish, no index
\* change), and no later frame from that socket is processed; a frame of 1024
\* bytes or fewer is never closed for size.
C24_Oversize == [][C24_Close /\ C24_NoLater]_vars

\* The frames that are not a browser message: text that is not JSON, a t that
\* is no tag of the protocol, a startWatching list with an id that is not 8
\* alphanumerics.
Undecodable(frame) ==
    \/ frame.kind \in {"malformed", "bogus"}
    \/ /\ frame.kind = "startWatching"
       /\ \E i \in 1..Len(frame.d) : ~frame.d[i].alnum \/ frame.d[i].len # 8

\* C25: a handled text frame that is not null and does not decode as a known
\* browser message (unknown t, malformed JSON, a field failing validation such
\* as a startWatching list with an invalid GameId) closes the socket with code
\* Protocol and leaves every shared index, the socket's watching set and the
\* outbound queue unchanged.
C25_ProtocolError ==
    [][(sent'.cause.tag = "frame" /\ sent'.cause.d /\ sent'.cause.frame.len <= 1024
          /\ Undecodable(sent'.cause.frame)) =>
            /\ Len(sent'.calls) = 1
            /\ sent'.calls[1].to = SenderOf(sent'.cause.n)
            /\ sent'.calls[1].frame = CloseFrame("Protocol")
            /\ Enqueued = <<>>
            /\ UNCHANGED <<appVars, sock>>]_vars

\* A startWatching whose second id is invalid has been answered by the close.
C25_Witness ==
    /\ sent.cause.tag = "frame" /\ sent.cause.frame.kind = "startWatching"
    /\ GameId_new(sent.cause.frame.d[1]) # "err"
    /\ Len(sent.calls) = 1 /\ sent.calls[1].frame = CloseFrame("Protocol")
    /\ sock[sent.cause.n].watching = {}

\* C26: an anaDests, anaMove or anaDrop frame whose request has a bad FEN, an
\* illegal move or an unknown variant is answered by exactly one destsFailure
\* (anaDests) or stepFailure (anaMove, anaDrop) frame, and the socket is not
\* closed.
C26_AnalysisFailure ==
    sent.cause.tag = "analysis" =>
        LET d == sent.cause.frame.d
            kind == sent.cause.frame.kind
            failure == \/ d.fen # "ok"
                       \/ d.variant \notin VariantKeys \cup {Absent}
                       \/ kind # "anaDests" /\ ~d.legal
        IN  failure =>
              /\ Len(sent.calls) = 1
              /\ sent.calls[1].to = SenderOf(sent.cause.n)
              /\ sent.calls[1].frame = IF kind = "anaDests" THEN <<"destsFailure">> ELSE <<"stepFailure">>

\* C27: an evalGet or evalPut frame of a socket that has an Sri enqueues exactly
\* the line tell/sri <sri> <uid or -> <frame text>, with the user id iff the
\* socket is Authenticated at that moment and - otherwise, and the text of the
\* frame unchanged; a socket without an Sri enqueues nothing; no frame is sent
\* in either case.
C27_Step ==
    sent'.cause.tag = "eval" =>
        LET s == sent'.cause.n
            frame == sent'.cause.frame
        IN  /\ sent'.calls = <<>>
            /\ sock[s].sri = NoSri => Enqueued = <<>>
            /\ sock[s].sri # NoSri =>
                 /\ s \in DOMAIN by_id
                 /\ Enqueued = << <<"tell/sri", sock[s].sri,
                                    IF by_id[s].auth.tag = "Authenticated" THEN by_id[s].auth.uid ELSE "-",
                                    frame>> >>
                 /\ by_id[s].auth.tag = "Authenticated" => by_id[s].auth.uid \notin {"-", NoUser}
            /\ ~panicked'

C27_EvalForward == [][C27_Step]_vars

\* C27 is exercised: one socket has forwarded a frame as an authenticated user,
\* and a socket without an Sri has had its frame dropped.
C27_Witness ==
    /\ \E i \in 1..Len(redis_sink) :
          /\ redis_sink[i][1] = "tell/sri"
          /\ redis_sink[i][3] # "-"
    /\ sent.cause.tag = "eval"
    /\ sock[sent.cause.n].sri = NoSri

\* The senders the calls of the step went to, in order.
C28_Recipients == [i \in 1..Len(sent'.calls) |-> sent'.calls[i].to]

\* The fan-out of message m reached every sender of `targets`, once each, in order.
C28_ToEach(targets) == C28_Recipients = targets
\* The fan-out of message m reached every sender of the set `targets`, once each.
C28_ToAll(targets) ==
    /\ Range(C28_Recipients) = targets
    /\ Len(C28_Recipients) = Cardinality(targets)

\* C28: in the fan-outs of TellUsers, TellFlag, TellSri, Move, MoveLatency and
\* DisconnectUser a send or close that fails on one sender does not keep the
\* others from being sent to, changes no index, and leaves the source thread
\* ready for the next line of lila.
C28_Step ==
    LET m == sent'.cause IN
    m.tag \in {"TellUsers", "TellFlag", "TellSri", "Move", "MoveLatency", "DisconnectUser"} =>
        /\ CASE m.tag = "TellUsers" -> C28_ToEach(TellUsersTargets(by_user, m.users))
             [] m.tag = "TellFlag" -> C28_ToAll(flags[m.flag])
             [] m.tag = "TellSri" -> C28_ToEach(IF m.sri \in DOMAIN by_sri THEN by_sri[m.sri] ELSE <<>>)
             [] m.tag = "Move" -> C28_ToEach(IF m.game \in DOMAIN by_game THEN by_game[m.game] ELSE <<>>)
             [] m.tag = "MoveLatency" -> C28_ToAll(watching_mlat)
             [] m.tag = "DisconnectUser" -> C28_ToEach(IF m.uid \in DOMAIN by_user THEN by_user[m.uid] ELSE <<>>)
        /\ UNCHANGED <<by_user, by_game, by_sri, by_id, flags, watching_mlat>>
        /\ src' = SrcIdle

C28_FanOutSurvivesFailure == [][C28_Step]_vars

\* C28 is exercised: the first call of a fan-out failed and a second one was
\* made, in the second message lila sent.
C28_Witness ==
    /\ sent.cause.tag \in {"TellUsers", "TellFlag", "TellSri", "Move", "MoveLatency", "DisconnectUser"}
    /\ Len(sent.calls) >= 2
    /\ ~sent.calls[1].ok
    /\ nlilaout >= 2

\* An unparseable line: a tag parse does not know, an argument
\* that is missing, a game id, user id, sri, flag or number that is not valid.
C29_Unparseable(line) ==
    \/ line.tag \notin {"move", "tell/user", "tell/users", "tell/all", "tell/flag", "tell/sri",
                        "disconnect/user", "mlat"}
    \/ line.tag = "move" /\ (line.nargs < 3 \/ ~(line.game.alnum /\ line.game.len = 8))
    \/ /\ line.tag \in {"tell/user", "tell/users"}
       /\ \/ line.nargs < 2
          \/ \E i \in 1..Len(line.users) :
                line.users[i].len = 0 \/ line.users[i].len > 30 \/ ~line.users[i].chars
    \/ line.tag = "tell/flag" /\ (line.nargs < 2 \/ line.flag \notin Flags)
    \/ line.tag = "tell/sri" /\ (line.nargs < 2 \/ line.sri.len > 12)
    \/ /\ line.tag = "disconnect/user"
       /\ \/ line.nargs < 1
          \/ line.users[1].len = 0 \/ line.users[1].len > 30 \/ ~line.users[1].chars
    \/ line.tag = "mlat" /\ (line.nargs < 1 \/ ~line.num.digits \/ line.num.v < 0)

\* The step dropped a line: nothing but the count of received lines changed.
C29_Dropped ==
    sent'.cause.tag = "Err" =>
        /\ UNCHANGED <<by_user, by_game, by_sri, by_id, flags, watching_mlat, watched_games, mlat,
                       connection_count, round_count, member_count, sock>>
        /\ sent'.calls = <<>>
        /\ Enqueued = <<>>
        /\ src' = SrcIdle

C30_Put ==
    LET m == src'.msg
        others == SelectSeq(watched_games, LAMBDA e : e.game # m.game)
        kept == IF Len(others) >= LruCapacity THEN LruCapacity - 1 ELSE Len(others)
    IN  /\ Head(watched_games') = [game |-> m.game, fen |-> m.fen, lm |-> m.lm]
        /\ Tail(watched_games') = SubSeq(others, 1, kept)

\* C30: watched_games never holds more than LruCapacity games; a Move is
\* cached whether or not the game has watchers; startWatching, close and
\* unwatch leave its contents and its order as they are: only a Move changes it.
C30_Step ==
    IF src.pc = "recv" /\ src'.pc = "move_fanout" THEN C30_Put ELSE UNCHANGED watched_games

C30_BoundedLru ==
    /\ [](Len(watched_games) <= LruCapacity)
    /\ [][C30_Step]_vars

\* C30 is exercised: the cache is full, the Move of a game nobody watches has
\* just been cached and the least recently written game is gone, after a socket
\* has closed.
C30_Witness ==
    /\ Len(watched_games) = LruCapacity
    /\ src.pc = "move_fanout"
    /\ watched_games[1].game = src.msg.game
    /\ src.msg.game \notin DOMAIN by_game
    /\ \A i \in 1..Len(watched_games) : watched_games[i].game # ToString(LruCapacity - 1)
    /\ \E s \in SocketIds : sock[s].st = "closed"

\* ---------------------------------------------------------------------
\* The analysis responder's pure functions (analysis.rs).
\* ---------------------------------------------------------------------

\* A square is its index, a1 = 0, b1 = 1, ..., h8 = 63: 8 * rank + file.
IdCapacity == 3
Files == 0..7
Ranks == 0..7
Sq(file, rank) == 8 * rank + file
Squares == { Sq(f, r) : f \in Files, r \in Ranks }
file_of(sq) == sq % 8
C4 == Sq(2, 3)
E7 == Sq(4, 6)
G8 == Sq(6, 7)

\* A char is its code point; the bytes the functions add up are u8.
u8(n) == n % 256
Chr == [a |-> 97, z |-> 122, A |-> 65, Z |-> 90, zero |-> 48, nine |-> 57,
        bang |-> 33, question |-> 63, hash |-> 35]

piotr_unshifted(sq) ==
    IF sq < C4 THEN u8(Chr.a + sq)
    ELSE IF sq < E7 THEN u8(Chr.A + sq)
    ELSE IF sq < G8 THEN u8(Chr.zero + sq)
    ELSE IF sq = G8 THEN Chr.bang
    ELSE Chr.question

piotr(sq) ==
    IF sq < C4 THEN u8(Chr.a + sq)
    ELSE IF sq < E7 THEN u8(Chr.A + (sq - C4))
    ELSE IF sq < G8 THEN u8(Chr.zero + (sq - E7))
    ELSE IF sq = G8 THEN Chr.bang
    ELSE Chr.question

\* A Uci is a normal move (with or without a promotion), a drop or the null move.
Roles == {"pawn", "knight", "bishop", "rook", "queen", "king"}
NoRole == "none"
Uci_Normal(from, to, promotion) == [kind |-> "normal", from |-> from, to |-> to, promotion |-> promotion]
Uci_Put(to, role) == [kind |-> "put", to |-> to, role |-> role]
Uci_Null == [kind |-> "null"]
Ucis ==
    { Uci_Normal(from, to, promotion) : from \in Squares, to \in Squares, promotion \in Roles \cup {NoRole} }
    \cup { Uci_Put(to, role) : to \in Squares, role \in Roles }
    \cup { Uci_Null }

square_id(sq) == u8(sq + Chr.hash)

drop_role_id_no_offset(role) ==
    u8(35 + 64 + CASE role = "king" -> 0
                   [] role = "queen" -> 0
                   [] role = "rook" -> 1
                   [] role = "bishop" -> 2
                   [] role = "knight" -> 3
                   [] role = "pawn" -> 4)

drop_role_id(role) ==
    u8(35 + 64 + 8 * 5 + CASE role = "king" -> 0
                           [] role = "queen" -> 0
                           [] role = "rook" -> 1
                           [] role = "bishop" -> 2
                           [] role = "knight" -> 3
                           [] role = "pawn" -> 4)

promotion_id(file, role) ==
    u8(35 + 64 + u8((CASE role = "queen" -> 0
                      [] role = "rook" -> 1
                      [] role = "bishop" -> 2
                      [] role = "knight" -> 3
                      [] role = "king" -> 4
                      [] role = "pawn" -> 0) * 8) + file)

\* An ArrayString<[u8; 3]>: its chars and the bytes of their UTF-8 encoding;
\* a push beyond the capacity panics.
utf8_len(c) == IF c < 128 THEN 1 ELSE 2
ArrayString_new == [ok |-> TRUE, chars |-> <<>>, bytes |-> 0]
ArrayString_push(r, c) ==
    IF r.ok /\ r.bytes + utf8_len(c) <= IdCapacity
    THEN [ok |-> TRUE, chars |-> Append(r.chars, c), bytes |-> r.bytes + utf8_len(c)]
    ELSE [ok |-> FALSE, chars |-> r.chars, bytes |-> r.bytes]

uci_char_pair(uci) ==
    CASE uci.kind = "normal" /\ uci.promotion = NoRole ->
            ArrayString_push(ArrayString_push(ArrayString_new, square_id(uci.from)), square_id(uci.to))
      [] uci.kind = "normal" /\ uci.promotion # NoRole ->
            ArrayString_push(ArrayString_push(ArrayString_new, square_id(uci.from)),
                             promotion_id(file_of(uci.to), uci.promotion))
      [] uci.kind = "put" ->
            ArrayString_push(ArrayString_push(ArrayString_new, square_id(uci.to)), drop_role_id(uci.role))
      [] uci.kind = "null" ->
            ArrayString_push(ArrayString_push(ArrayString_new, Chr.hash), Chr.hash)

\* A u32 in two 16-bit halves, hi * 2^16 + lo. The exact result of an
\* operation may lie outside the u32 range (hi beyond 16 bits, or negative);
\* u32_result is what the build makes of it: with overflow checks the
\* operation panics, without them the result wraps.
Half == 256 * 256
U32(hi, lo) == [hi |-> hi, lo |-> lo]
Exact(hi, lo) == [hi |-> hi + ((lo - (lo % Half)) \div Half), lo |-> lo % Half]
Panicked == [ok |-> FALSE, val |-> U32(0, 0)]
u32_result(exact, overflow_checks) ==
    IF exact.hi \in 0..(Half - 1) THEN [ok |-> TRUE, val |-> exact]
    ELSE IF overflow_checks THEN Panicked
    ELSE [ok |-> TRUE, val |-> U32(exact.hi % Half, exact.lo)]
u32_sub(a, n, overflow_checks) ==
    IF a.ok THEN u32_result(Exact(a.val.hi, a.val.lo - n), overflow_checks) ELSE Panicked
u32_mul(a, n, overflow_checks) ==
    IF a.ok THEN u32_result(Exact(a.val.hi * n, a.val.lo * n), overflow_checks) ELSE Panicked
u32_add(a, n, overflow_checks) ==
    IF a.ok THEN u32_result(Exact(a.val.hi, a.val.lo + n), overflow_checks) ELSE Panicked

\* The position a legal move leaves: the other side is to move, and the
\* fullmove number has gone up by one after a move of black.
Colors == {"white", "black"}
Color_fold(turn, white, black) == IF turn = "white" THEN white ELSE black
play_unchecked(fullmoves, turn) ==
    [fullmoves |-> IF turn = "black" THEN Exact(fullmoves.hi, fullmoves.lo + 1) ELSE fullmoves,
     turn |-> Color_fold(turn, "black", "white")]

\* The fullmove numbers of a parsed FEN: the field is a u32, 1 for the first move.
Fullmoves == { U32(0, 1), U32(0, 2), U32(0, 40), U32(Half \div 2 - 1, Half - 1),
               U32(Half \div 2, 0), U32(Half \div 2, 1), U32(Half - 1, Half - 1) }

\* Branch.ply of PlayStep::respond: (fullmoves - 1) * 2 + (0 for white to move, 1 for black).
ply(pos, overflow_checks) ==
    u32_add(u32_mul(u32_sub([ok |-> TRUE, val |-> pos.fullmoves], 1, overflow_checks), 2, overflow_checks),
            Color_fold(pos.turn, 0, 1), overflow_checks)

\* Lines 247-260: the variant of a key; an absent key is standard.
Variant_from(key) ==
    IF key \in {Absent, "standard", "fromPosition", "chess960"} THEN "standard" ELSE key

\* Lines 223-231.
is_opening_sensible(variant) == variant \in {"standard", "crazyhouse", "threeCheck", "kingOfTheHill"}

\* Lines 30-34: the entry of the opening database under the EPD of a
\* position, if there is one; in_db says whether the database has the EPD of
\* the position that is looked up.
lookup_opening(in_db) == IF in_db THEN <<"opening">> ELSE <<>>

OpeningRequest(variant, fen, legal, in_db) ==
    [variant |-> variant, fen |-> fen, legal |-> legal, in_db |-> in_db]
OpeningRequests ==
    { OpeningRequest(v, fen, legal, in_db) :
        v \in VariantKeys \cup {Absent}, fen \in {"ok", "unparseable", "impossible"},
        legal \in BOOLEAN, in_db \in BOOLEAN }

Response(ok, opening) == [ok |-> ok, opening |-> opening]

\* Lines 350-362: GetOpening::respond parses the FEN, it builds no position.
GetOpening_respond(d) ==
    IF is_opening_sensible(Variant_from(d.variant))
    THEN (IF d.fen # "unparseable" /\ lookup_opening(d.in_db) # <<>>
          THEN Response(TRUE, lookup_opening(d.in_db)) ELSE Response(FALSE, <<>>))
    ELSE Response(FALSE, <<>>)

\* Lines 385-390: the DestsResponse of GetDests::respond.
DestsResponse(d) ==
    IF GetDests_respond(d) = "ok" THEN Response(TRUE, lookup_opening(d.in_db)) ELSE Response(FALSE, <<>>)

\* Lines 480-496: the Node of PlayStep::respond; the position looked up is
\* the one after the move.
Node(d) ==
    IF PlayStep_respond(d) = "ok" THEN Response(TRUE, lookup_opening(d.in_db)) ELSE Response(FALSE, <<>>)

\* What an application of an analysis function leaves alone; each behaviour
\* applies one function to one input.
callFrame == <<statVars, guardVars, last_moveLat, du, lockpc, appVars, chanVars, threadVars, boundVars, sock, sent>>

Call(fn, arg, ret) == [fn |-> fn, arg |-> arg, ret |-> ret]

Call_piotr ==
    /\ call = NoCall
    /\ \E sq \in Squares : call' = Call("piotr", <<sq>>, <<piotr(sq)>>)
    /\ UNCHANGED callFrame

Call_uci_char_pair ==
    /\ call = NoCall
    /\ \E uci \in Ucis : call' = Call("uci_char_pair", <<uci>>, <<uci_char_pair(uci)>>)
    /\ UNCHANGED callFrame

\* The ply of the node after a move in a position with the given fullmove
\* number and side to move, in a build with or without overflow checks.
Call_ply ==
    /\ call = NoCall
    /\ \E fullmoves \in Fullmoves, turn \in Colors, overflow_checks \in BOOLEAN :
          /\ ~(turn = "black" /\ fullmoves = U32(Half - 1, Half - 1))
          /\ call' = Call("ply", <<fullmoves, turn>>, <<ply(play_unchecked(fullmoves, turn), overflow_checks)>>)
    /\ UNCHANGED callFrame

\* The three responders that look up an opening.
Call_respond ==
    /\ call = NoCall
    /\ \E d \in OpeningRequests :
          \/ call' = Call("GetOpening", <<d>>, <<GetOpening_respond(d)>>)
          \/ call' = Call("GetDests", <<d>>, <<DestsResponse(d)>>)
          \/ call' = Call("PlayStep", <<d>>, <<Node(d)>>)
    /\ UNCHANGED callFrame

NextCodec ==
    \/ Call_piotr
    \/ Call_respond
    \/ Call_ply
    \/ Call_uci_char_pair

SpecCodec == Init /\ [][NextCodec]_vars

\* C31: piotr is a total, injective map of the 64 squares to chars: square
\* i < 26 gives 'a' + i, 26 <= i < 52 gives 'A' + (i - 26), 52 <= i < 62
\* gives '0' + (i - 52), 62 gives '!' and 63 gives '?'; a1 is 'a', b4 'z',
\* c4 'A', d7 'Z', e7 '0', f8 '9', g8 '!' and h8 '?'.
C31_Named ==
    <<Sq(0, 0), Chr.a>> :> TRUE @@ <<Sq(1, 3), Chr.z>> :> TRUE @@ <<C4, Chr.A>> :> TRUE @@ <<Sq(3, 6), Chr.Z>> :> TRUE
    @@ <<E7, Chr.zero>> :> TRUE @@ <<Sq(5, 7), Chr.nine>> :> TRUE @@ <<G8, Chr.bang>> :> TRUE
    @@ <<Sq(7, 7), Chr.question>> :> TRUE

C31_Piotr ==
    call.fn = "piotr" =>
        LET i == call.arg[1]
            c == call.ret[1]
        IN  /\ i \in 0..63
            /\ i < 26 => c = 97 + i
            /\ (26 <= i /\ i < 52) => c = 65 + (i - 26)
            /\ (52 <= i /\ i < 62) => c = 48 + (i - 52)
            /\ i = 62 => c = 33
            /\ i = 63 => c = 63
            /\ \A j \in Squares : piotr(j) = c => j = i
            /\ \A n \in DOMAIN C31_Named : n[1] = i => n[2] = c

\* C31 is exercised: piotr has been applied to d7, the last square of the
\* upper-case range, and gave 'Z'.
C31_Witness ==
    /\ call.fn = "piotr"
    /\ call.arg = <<Sq(3, 6)>>
    /\ call.ret = <<Chr.Z>>

\* C32: uci_char_pair gives exactly two chars. A move without promotion is
\* (from + 35, to + 35); a promotion is (from + 35, 35 + 64 + rank * 8 + file
\* of to) with queen 0, rook 1, bishop 2, knight 3, king 4; a drop is
\* (to + 35, 35 + 64 + 40 + rank) with queen 0, rook 1, bishop 2, knight 3,
\* pawn 4; the null move is "##". Every code fits in a byte without wrapping,
\* and the second chars of moves, promotions and drops lie in three ranges
\* that do not meet.
C32_PromotionRank == [queen |-> 0, rook |-> 1, bishop |-> 2, knight |-> 3, king |-> 4]
C32_DropRank == [queen |-> 0, rook |-> 1, bishop |-> 2, knight |-> 3, pawn |-> 4]

C32_UciCharPair ==
    call.fn = "uci_char_pair" =>
        LET uci == call.arg[1]
            r == call.ret[1]
            c1 == r.chars[1]
            c2 == r.chars[2]
        IN  /\ r.ok
            /\ Len(r.chars) = 2
            /\ c1 \in 0..255 /\ c2 \in 0..255
            /\ (uci.kind = "normal" /\ uci.promotion = NoRole) =>
                   /\ c1 = uci.from + 35 /\ c2 = uci.to + 35
                   /\ c2 < 35 + 64
            /\ (uci.kind = "normal" /\ uci.promotion # NoRole) =>
                   /\ c1 = uci.from + 35
                   /\ uci.promotion \in DOMAIN C32_PromotionRank =>
                          c2 = 35 + 64 + C32_PromotionRank[uci.promotion] * 8 + (uci.to % 8)
                   /\ 35 + 64 <= c2 /\ c2 < 35 + 64 + 40
                   /\ (uci.from = Sq(1, 6) /\ uci.to = Sq(2, 7) /\ uci.promotion = "queen") =>
                          (c1 = 84 /\ c2 = 101)
            /\ uci.kind = "put" =>
                   /\ c1 = uci.to + 35
                   /\ uci.role \in DOMAIN C32_DropRank => c2 = 35 + 64 + 40 + C32_DropRank[uci.role]
                   /\ 35 + 64 + 40 <= c2
            /\ uci.kind = "null" => (c1 = 35 /\ c2 = 35)

\* C32 is exercised: the drop with the largest code, a pawn on h8, has been
\* encoded in two chars, the second one beyond the ASCII range.
C32_Witness ==
    /\ call.fn = "uci_char_pair"
    /\ call.arg = <<Uci_Put(Sq(7, 7), "pawn")>>
    /\ call.ret[1].ok
    /\ call.ret[1].chars = <<98, 143>>

\* C33: the ply of a node is 2 * (fullmove - 1), plus 1 if black is to move
\* in the resulting position, and it is computed without unsigned underflow
\* or overflow for every fullmove number the FEN parser accepts.
C33_Ply ==
    call.fn = "ply" =>
        LET pos == play_unchecked(call.arg[1], call.arg[2])
            r == call.ret[1]
        IN  /\ r.ok
            /\ r.val = Exact(2 * pos.fullmoves.hi, 2 * (pos.fullmoves.lo - 1) + Color_fold(pos.turn, 0, 1))

\* The same for the fullmove numbers up to 2^31, where the doubling stays
\* within the u32.
C33_PlySmall ==
    (call.fn = "ply" /\ call.arg[1].hi < Half \div 2) => C33_Ply

\* C34: every responder attaches an opening only when the variant is
\* standard, crazyhouse, three-check or king-of-the-hill and the EPD is in
\* the database; for antichess, atomic, horde and racing-kings GetOpening,
\* GetDests and PlayStep omit it.
C34_Gated(d, r) ==
    r.opening # <<>> => (is_opening_sensible(Variant_from(d.variant)) /\ d.in_db)

C34_OpeningGated ==
    call.fn \in {"GetOpening", "GetDests", "PlayStep"} => C34_Gated(call.arg[1], call.ret[1])

\* The same of GetOpening alone.
C34_GetOpeningGated ==
    call.fn = "GetOpening" => C34_Gated(call.arg[1], call.ret[1])

\* The session lookup under fair scheduling: the lookup worker is a thread
\* of its own that blocks on nothing but its channel and the by_id lock, and
\* the event loop runs a handler it has started to its end.
NextLookup ==
    \/ Lifecycle(HandshakesShort)
    \/ LookupRecv
    \/ LookupDeliver
    \/ OnMessageNotified

FairLookup ==
    /\ WF_vars(LookupRecv)
    /\ WF_vars(LookupDeliver)
    /\ WF_vars(OnOpenById \/ OnOpenFlag \/ OnOpenSri)

SpecLookup == Init /\ [][NextLookup]_vars /\ FairLookup

\* C35: every session lookup is eventually resolved on the socket: a socket
\* that opened with a session cookie and stays open eventually leaves
\* Requested and has its pending notified and following_onlines flushed,
\* whatever the interleaving of the open handler and the lookup worker.
C35_Unresolved(s) ==
    /\ s \in DOMAIN by_id
    /\ \/ by_id[s].auth = Requested
       \/ by_id[s].pending_notified
       \/ by_id[s].pending_following_onlines

C35_LookupResolved ==
    \A s \in SocketIds : C35_Unresolved(s) ~> ~C35_Unresolved(s)

\* C36: a new watcher never ends up behind the cache. Whatever the
\* interleaving of a socket's startWatching of g (peek and send, then the
\* by_game insert) with a Move of g (cache write, then the fan-out over
\* by_game), once both have completed the last fen frame sent to the socket
\* for g carries the fen and lm of watched_games[g]. The one that completes
\* last is either the subscription, and then the last frame of the socket is
\* the one of the peek, or the fan-out, and then it is the one of the Move.
C36_State(g) == LET e == lru_peek(watched_games, g) IN <<e.fen, e.lm>>

C36_SubscribeLast ==
    LET g == Head(ws.games) IN
    (/\ ws.pc = "watch_subscribe" /\ ws'.pc # "watch_subscribe"
     /\ ~(src.pc = "move_fanout" /\ src.msg.game = g)
     /\ lru_contains(watched_games, g))
    => ws.peeked = C36_State(g)

C36_FanOutLast ==
    LET g == src.msg.game IN
    (src.pc = "move_fanout" /\ src'.pc # "move_fanout" /\ g \in DOMAIN by_game)
    => \A x \in Range(by_game[g]) :
          \E i \in 1..Len(sent'.calls) :
             /\ sent'.calls[i].to = x
             /\ sent'.calls[i].frame = SocketIn_Fen(g, C36_State(g)[1], C36_State(g)[2])

C36_WatcherNotBehind == [][C36_SubscribeLast /\ C36_FanOutLast]_vars

\* The part of C36 that a Move completing last is about.
C36_FanOutReachesWatchers == [][C36_FanOutLast]_vars

\* C37: a new move-latency subscriber never ends up with a stale value.
\* Whatever the interleaving of a socket's moveLat{d:true} (insert and send of
\* the stored mlat, under the watching_mlat write lock) with a MoveLatency(m)
\* (store, then broadcast under the read lock), once both have completed the
\* last mlat frame sent to the socket carries the latest stored m. The one
\* that completes last is either the subscription, which then sends the
\* stored value, or the broadcast, which then reaches the subscriber.
C37_Subscribed(s) == SenderOf(s) \notin watching_mlat /\ SenderOf(s) \in watching_mlat'

C37_SentTo(x, frame) ==
    \E i \in 1..Len(sent'.calls) : sent'.calls[i].to = x /\ sent'.calls[i].frame = frame

C37_SubscribeLast ==
    \A s \in SocketIds :
        (C37_Subscribed(s) /\ src.pc \notin {"mlat_store", "mlat_broadcast"})
        => C37_SentTo(SenderOf(s), SocketIn_MoveLatency(mlat'))

C37_BroadcastLast ==
    (src.pc = "mlat_broadcast" /\ src'.pc # "mlat_broadcast")
    => /\ mlat' = src.msg.n
       /\ \A x \in watching_mlat' : C37_SentTo(x, SocketIn_MoveLatency(mlat'))

C37_SubscriberNotStale == [][C37_SubscribeLast /\ C37_BroadcastLast]_vars

\* C37 is exercised: a socket has subscribed after the store of a
\* MoveLatency and before its broadcast, and was sent the new value.
C37_Witness ==
    /\ src.pc = "mlat_broadcast"
    /\ sent.cause.tag = "moveLat" /\ sent.cause.d
    /\ Len(sent.calls) = 1
    /\ sent.calls[1].frame = SocketIn_MoveLatency(src.msg.n)
    /\ mlat = src.msg.n

\* ---------------------------------------------------------------------
\* The locks of App (parking_lot::RwLock, main.rs:153-162) and the order in
\* which each handler takes and releases them. A guard that is a temporary
\* is released at the end of its statement, a guard bound by let at the end
\* of its block. The channels are crossbeam's unbounded ones (727-728).
\* ---------------------------------------------------------------------
Acq(lock, mode) == [op |-> "acq", lock |-> lock, mode |-> mode]
Rel(lock) == [op |-> "rel", lock |-> lock, mode |-> "-"]
Send(chan) == [op |-> "send", lock |-> chan, mode |-> "-"]
FlagLock(flag) == "flags[" \o flag \o "]"

\* Lines 727-728: a send on an unbounded channel never blocks.
SendBlocks_bounded(chan) == TRUE
SendBlocks(chan) == FALSE

\* Lines 336-368: UserSocket::set_user. A uid takes the by_user write lock for
\* the entry (340-347, Connect published inside); an old Authenticated takes
\* it again for the removal (357-367, Disconnect published inside); an old
\* Requested flushes the pending frames (371-378).
set_user_script(some_uid, old) ==
    (IF some_uid THEN <<Acq("by_user", "w"), Send("redis_sink"), Rel("by_user")>> ELSE <<>>)
    \o (CASE old = "Authenticated" -> <<Acq("by_user", "w"), Send("redis_sink"), Rel("by_user")>>
          [] old = "Requested" -> <<Send("redis_sink")>>
          [] OTHER -> <<>>)

\* Lines 446-478: on_open.
on_open_script(flag) ==
    <<Send("sid_sink"), Acq("by_id", "w"), Rel("by_id")>>
    \o (IF flag # NoFlag THEN <<Acq(FlagLock(flag), "w"), Rel(FlagLock(flag))>> ELSE <<>>)
    \o <<Acq("by_sri", "w"), Rel("by_sri")>>

\* A close handler that keeps the by_user lock over the by_id removal.
on_close_script_user_first(flag, old) ==
    <<Acq("by_user", "w"), Acq("by_id", "w"), Rel("by_id"), Rel("by_user")>>

\* Lines 508-540: on_close. The by_game guard lives to the end of the handler.
on_close_script(flag, old) ==
    <<Acq("by_sri", "w"), Rel("by_sri"), Acq("by_id", "w"), Rel("by_id")>>
    \o set_user_script(FALSE, old)
    \o <<Acq("by_game", "w"), Send("redis_sink")>>
    \o (IF flag # NoFlag THEN <<Acq(FlagLock(flag), "w"), Rel(FlagLock(flag))>> ELSE <<>>)
    \o <<Rel("by_game")>>

\* Lines 583-693: on_message, by kind of frame.
on_message_script(t) ==
    CASE t \in {"p", "evalGet", "evalPut"} -> <<Acq("by_id", "r"), Send("redis_sink"), Rel("by_id")>>
      [] t \in {"notified", "following_onlines"} -> <<Acq("by_id", "w"), Send("redis_sink"), Rel("by_id")>>
      [] t = "startWatching" ->
            <<Acq("watched_games", "r"), Rel("watched_games"),
              Acq("by_game", "w"), Send("redis_sink"), Rel("by_game")>>
      [] t = "moveLat" -> <<Acq("watching_mlat", "w"), Rel("watching_mlat")>>

\* Lines 783-786: the lookup worker calls set_user under the by_id write lock.
lookup_script(some_uid, old) ==
    <<Acq("by_id", "w")>> \o set_user_script(some_uid, old) \o <<Rel("by_id")>>

\* Lines 198-295: App::received, by message.
received_script(tag, flag) ==
    CASE tag \in {"TellUsers", "DisconnectUser"} -> <<Acq("by_user", "r"), Rel("by_user")>>
      [] tag = "Move" ->
            <<Acq("watched_games", "w"), Rel("watched_games"), Acq("by_game", "r"), Rel("by_game")>>
      [] tag = "MoveLatency" -> <<Send("redis_sink"), Acq("watching_mlat", "r"), Rel("watching_mlat")>>
      [] tag = "TellFlag" -> <<Acq(FlagLock(flag), "r"), Rel(FlagLock(flag))>>
      [] tag = "TellSri" -> <<Acq("by_sri", "r"), Rel("by_sri")>>

AuthTags == {"Requested", "Anonymous", "Authenticated"}
Scripts(t) ==
    CASE t = "ws" ->
            { on_open_script(flag) : flag \in Flags \cup {NoFlag} }
            \cup { on_close_script(flag, old) : flag \in Flags \cup {NoFlag}, old \in AuthTags }
            \cup { on_message_script(k) :
                     k \in {"p", "evalGet", "notified", "following_onlines", "startWatching", "moveLat"} }
      [] t = "lk" -> { lookup_script(some_uid, old) : some_uid \in BOOLEAN, old \in AuthTags }
      [] t = "src" ->
            { received_script(tag, flag) :
                tag \in {"TellUsers", "DisconnectUser", "Move", "MoveLatency", "TellFlag", "TellSri"},
                flag \in Flags }

\* The operation a thread is at, and the locks it holds: those it has taken
\* and not released.
Busy(t) == lockpc[t].pos <= Len(lockpc[t].script)
NextOp(t) == lockpc[t].script[lockpc[t].pos]
At(t, op) == Busy(t) /\ NextOp(t).op = op
Held(t) ==
    LET s == lockpc[t].script
        n == lockpc[t].pos - 1
    IN  { [lock |-> s[i].lock, mode |-> s[i].mode] :
            i \in { k \in 1..n : /\ s[k].op = "acq"
                                 /\ ~\E j \in (k + 1)..n : s[j].op = "rel" /\ s[j].lock = s[k].lock } }

\* RwLock: a writer excludes everyone, a reader excludes writers; taking a
\* lock that the thread holds itself never succeeds.
Excludes(u, t) ==
    \E h \in Held(u) :
        /\ h.lock = NextOp(t).lock
        /\ (u = t \/ h.mode = "w" \/ NextOp(t).mode = "w")
Blocked(t) == At(t, "acq") /\ \E u \in Threads : Excludes(u, t)

LockAdvance(t) == lockpc' = [lockpc EXCEPT ![t].pos = @ + 1]
lockFrame == <<statVars, guardVars, last_moveLat, du, call, appVars, chanVars, threadVars, boundVars, sock, sent>>

LockBegin ==
    /\ \E t \in Threads :
          /\ ~Busy(t)
          /\ \E s \in Scripts(t) : lockpc' = [lockpc EXCEPT ![t] = [script |-> s, pos |-> 1]]
    /\ UNCHANGED lockFrame

LockAcquire ==
    /\ \E t \in Threads : At(t, "acq") /\ ~Blocked(t) /\ LockAdvance(t)
    /\ UNCHANGED lockFrame

LockRelease ==
    /\ \E t \in Threads : At(t, "rel") /\ LockAdvance(t)
    /\ UNCHANGED lockFrame

LockSend ==
    /\ \E t \in Threads : At(t, "send") /\ ~SendBlocks(NextOp(t).lock) /\ LockAdvance(t)
    /\ UNCHANGED lockFrame

NextLocks ==
    \/ LockBegin
    \/ LockAcquire
    \/ LockRelease
    \/ LockSend

SpecLocks == Init /\ [][NextLocks]_vars

\* C38: no reachable state has a set of threads each blocked on a lock held
\* by another one of the set: the nested acquisitions (by_id then by_user in
\* the lookup worker, by_game then flags in the close handler) form no cycle,
\* startWatching has released watched_games when it takes by_game, and no
\* thread is at an enqueue that can block while it holds a lock.
C38_Deadlocked(D) ==
    \A t \in D : At(t, "acq") /\ \E u \in D : Excludes(u, t)

C38_DeadlockFree ==
    /\ \A D \in SUBSET Threads : D # {} => ~C38_Deadlocked(D)
    /\ \A t \in Threads : (At(t, "send") /\ Held(t) # {}) => ~SendBlocks(NextOp(t).lock)
    /\ \A t \in Threads : Held(t) # {} => Busy(t)

\* C38 is exercised: the lookup worker holds by_id and waits for by_user,
\* which the close handler holds for its set_user, while the source thread
\* reads by_game.
C38_Witness ==
    /\ Blocked("lk")
    /\ [lock |-> "by_id", mode |-> "w"] \in Held("lk")
    /\ NextOp("lk").lock = "by_user"
    /\ [lock |-> "by_user", mode |-> "w"] \in Held("ws")
    /\ [lock |-> "by_game", mode |-> "r"] \in Held("src")

\* C39: the watching set of a socket and by_game stay consistent even when
\* a send fails: between handlers, for every open socket and every game in
\* its watching set, the socket's sender is in by_game[g], also after a
\* startWatching whose send of the cached fen returned an error; so the
\* lookups of the close handler, of the game in by_game and of the sender
\* among the watchers, find what they look for.
C39_Subscribed(s) ==
    \A g \in sock[s].watching :
        g \in DOMAIN by_game /\ SenderOf(s) \in Range(by_game[g])

C39_WatchingInByGame ==
    /\ ws.pc = "idle" => \A s \in SocketIds : sock[s].st = "open" => C39_Subscribed(s)
    /\ ws.pc = "close_by_game" => C39_Subscribed(ws.s)

(***************************************************************************)
(* The lines that carry a user id: lag, notified and friends of the        *)
(* socket's own user, tell/sri with the user of the socket that sent the   *)
(* frame.                                                                  *)
(***************************************************************************)
NextLines ==
    \/ Lifecycle(HandshakesPing)
    \/ LookupRecv
    \/ LookupDeliver
    \/ OnMessagePing
    \/ OnMessageNotified
    \/ OnMessageFollowingOnlines
    \/ OnMessageEval

SpecLines == Init /\ [][NextLines]_vars

\* The user a line is about, NoUser for a line that is about none.
C40_UserOf(l) ==
    CASE l[1] \in {"lag", "notified", "friends"} -> l[2]
      [] l[1] = "tell/sri" -> l[3]
      [] OTHER -> NoUser

\* The last connect or disconnect line of the line's user before line i is a
\* connect.
C40_AfterConnect(lines, i) ==
    LET before == UserLines(SubSeq(lines, 1, i - 1), C40_UserOf(lines[i])) IN
    before # <<>> /\ before[Len(before)][1] = "connect"

C40_Bracketed ==
    \A i \in 1..Len(redis_sink) :
        C40_UserOf(redis_sink[i]) # NoUser => C40_AfterConnect(redis_sink, i)

C40_Present ==
    \A i \in 1..Len(Enqueued) :
        C40_UserOf(Enqueued[i]) # NoUser => C40_UserOf(Enqueued[i]) \in DOMAIN by_user'

\* C40: every lag, notified, friends and tell/sri line of a user is in the
\* channel after a connect of that user with no disconnect of the user in
\* between, and a step enqueues such a line only for a user that is in by_user.
C40_UserLinesBracketed == []C40_Bracketed /\ [][C40_Present]_vars

\* A user's line between the connect and the disconnect of the user, and a
\* second connect of the user after them.
C40_Witness ==
    \E u \in Users : \E i, j, k, m \in 1..Len(redis_sink) :
        /\ i < j /\ j < k /\ k < m
        /\ redis_sink[i] = <<"connect", u>>
        /\ C40_UserOf(redis_sink[j]) = u
        /\ redis_sink[k] = <<"disconnect", u>>
        /\ redis_sink[m] = <<"connect", u>>

====
